---- MODULE Spec2Model ----
(***************************************************************************)
(* The persistent byte-range cache of galileo's PMTiles HTTP backend       *)
(* (galileo/src/layer/pmtiles_http_cache.rs): CachedHttpBackend::read,     *)
(* get_next_range_at_or_after, record_range and fetch_and_store, with the  *)
(* sled index, the span files, the HTTP server and out-of-band deletion of *)
(* span files as the environment.                                          *)
(*                                                                         *)
(* Spec        one read call at a time, a server that answers every range  *)
(*             request with the bytes asked for, deletions between calls.  *)
(* SpecFaulty  one read call at a time, a server that may answer with any  *)
(*             status or too long a body, transport and file errors, calls *)
(*             dropped at their suspension points.                         *)
(* SpecConc    two read calls interleaved at every access to the index,    *)
(*             the file system and the network; deletions at any time.     *)
(* SpecConcFair  the same, with calls that keep running and fetches that   *)
(*             terminate.                                                  *)
(* SpecShort   one read call at a time, a server that may answer 206 with  *)
(*             fewer bytes than were asked for.                            *)
(*                                                                         *)
(* The displayed tiles of a layer (galileo/src/layer/tiles.rs):            *)
(* TilesContainer::update_displayed_tiles, set_fade_in_duration and the    *)
(* lock of the tiles, with the tile provider and the clock as environment; *)
(* and tiles_for_bbox_and_res of the prefetch.                             *)
(*                                                                         *)
(* SpecTiles   calls of update_displayed_tiles for any indices and styles  *)
(*             at one instant, the animation switched on and off.          *)
(* SpecFade    calls of update_displayed_tiles for the tiles of one place  *)
(*             as the clock advances and the fade-in duration is set.      *)
(* SpecFadeFair  the same, with calls that keep running as the clock       *)
(*             advances.                                                   *)
(* SpecDup     calls of update_displayed_tiles that may name an index      *)
(*             twice, under two styles, as the clock advances.             *)
(* SpecLock    two threads in update_displayed_tiles and a reader of the   *)
(*             tiles, interleaved at every step.                           *)
(* SpecCover   one call of tiles_for_bbox_and_res for any box, empty and   *)
(*             inverted ones included, level and vertical direction.       *)
(* SpecMercator  one call of tiles_for_bbox_and_res on the schema of       *)
(*             examples/pmtiles.rs, in exact f64 arithmetic.               *)
(*                                                                         *)
(* The prefetch (spawn_prefetch_for_url, prefetch_tiles) and the tile      *)
(* loaders (galileo/src/layer/pmtiles.rs and                               *)
(* vector_tile_layer/tile_provider/loader.rs), with the runtime, the       *)
(* archive reader, the tile server and the flat cache as environment.      *)
(*                                                                         *)
(* SpecPrefetch  a call of spawn_prefetch_for_url, its task and tile tasks *)
(*             interleaved at every await, and an abort of the handle.     *)
(* SpecPrefetchFair  the same, with tasks that are polled and fetches that *)
(*             terminate.                                                  *)
(* SpecArchive raster and vector loads of a PmtilesTileLoader.             *)
(* SpecWeb     loads of a WebVtLoader, with and without cache, online and  *)
(*             offline.                                                    *)
(*                                                                         *)
(* The render loop of the Flutter binding                                  *)
(* (galileo_flutter/rust/src/core/render_loop.rs): RenderLoop and its      *)
(* render_task, with the senders of commands and the timer as environment. *)
(*                                                                         *)
(* SpecRender  commands sent in any order, the task at either branch of    *)
(*             its select!, and the drop of the RenderLoop.                *)
(***************************************************************************)
EXTENDS Integers, Sequences, FiniteSets, TLC

\* ------------------------------------------------------------------ bounds
\* Length in bytes of the remote resource.
SrcLen == 4

\* Length in bytes of the part of the resource that concurrent reads request.
ConcLen == 2

\* Number of span files deleted out-of-band while concurrent reads run.
MaxDeletes == 1

\* The largest config.concurrency of a prefetch.
MaxConcurrency == 2

\* Length in bytes of the longest payload of a tile in an archive.
PayloadLen == 3

\* Number of commands that wait in the channel of a RenderLoop.
MaxCommands == 3

\* Number of indices in the needed_indices of a call of update_displayed_tiles.
MaxNeeded == 1

\* Number of indices in the needed_indices of a call that may name an index
\* more than once.
MaxDupNeeded == 2

\* Number of times the clock of the displayed tiles advances.
MaxTicks == 2

\* Number of tiles the container displays at a time.
MaxDisplayed == 3

\* Number of indices in the needed_indices of a call while the clock advances.
MaxFadeNeeded == 1

\* How far from the origin of the schema the boxes of tiles_for_bbox_and_res
\* reach, in halves of a tile of the deepest level.
CoverSpan == 2

\* ------------------------------------------------------- program constants
\* StatusCode::PARTIAL_CONTENT
PARTIAL_CONTENT == 206

\* DEFAULT_FADE_IN_DURATION, in milliseconds
DEFAULT_FADE_IN_DURATION == 300

\* The 0.001 map units that tiles_for_bbox_and_res compares a remainder
\* with, in the unit of the coordinates of SpecCover: 1/2000 map unit.
TOLERANCE == 2

\* ------------------------------------------------------------ environment
\* The tasks that may run read; Spec runs the calls of SeqTasks one at a time.
Tasks == {1, 2}
SeqTasks == {1}

Offsets == 0 .. (SrcLen - 1)

\* The byte of the immutable remote resource at offset i. The bytes are
\* pairwise different and none is 0 (the fill of read's output buffer), so a
\* byte placed at the wrong position, or never written, shows.
Src(i) == i + 1

\* The bytes [o, o+l) of the remote resource.
SrcBytes(o, l) == [i \in 1 .. l |-> Src(o + i - 1)]

\* The (offset, length) pairs a read inside the resource can fetch or record.
Spans == {s \in Offsets \X (1 .. SrcLen) : s[1] + s[2] <= SrcLen}

\* The requests read(offset, length) the callers make.
Requests == {r \in Offsets \X (0 .. SrcLen) : r[1] + r[2] <= SrcLen}

\* The requests of the concurrent callers: non-empty, in the first ConcLen bytes.
ConcRequests == {r \in Requests : r[2] >= 1 /\ r[1] + r[2] <= ConcLen}

\* HTTP statuses the server may answer a range request with.
Statuses == {200, 206, 304, 404, 416, 500}

\* The bodies a 206 answer to the range request (o, l) may carry: the bytes
\* asked for, or one byte more.
Bodies(o, l) == {SrcBytes(o, l), SrcBytes(o, l) \o <<0>>}

\* The bodies of a 206 answer that carries fewer bytes than the l asked for:
\* the first k bytes of the range, as when the resource ends there.
ShortBodies(o, l) == {SrcBytes(o, k) : k \in 0 .. (l - 1)}

VARIABLES
    tree,    \* the sled tree of this URL: a set of <<offset, length>>, one per key
    files,   \* the span files of url_folder, by <<offset, length>>
    rd,      \* per task: the locals of its read call and where it stands
    hist,    \* history of the running call of Spec and SpecFaulty
    marked,  \* history: a read that returned Ok with no span file deleted since
    gone,    \* history: the span files deleted out-of-band, until the deletion
             \* is noticed (the stale entry removed) or the file created again
    ndel,    \* SpecConc: the number of span files deleted so far
    tiles,   \* TilesContainer::tiles: the Vec of displayed tiles
    fade_in_duration,  \* TilesContainer::fade_in_duration, in milliseconds
    now,     \* web_time::Instant::now(), in microseconds
    pass,    \* history: the last call of update_displayed_tiles that returned
    steady,  \* history: the displayed tiles admitted since fade_in_duration
             \* last changed, by <<index, style_id, displayed_at>>
    lock,    \* the Mutex of TilesContainer::tiles: 0, or who holds it
    updating,  \* SpecLock: per caller, the locals of its update_displayed_tiles
             \* and where it stands
    committed,  \* SpecLock, history: the displayed tiles as the last call that
               \* returned left them
    cover,   \* SpecCover: the last call of tiles_for_bbox_and_res and its result
    mercator,  \* SpecMercator: the same, on the schema of examples/pmtiles.rs
    prefetch,  \* SpecPrefetch: the call of spawn_prefetch_for_url, the task it
               \* spawns and whether its handle was aborted
    sem,       \* the Semaphore of prefetch_tiles: its permits and its waiters
    ttask,     \* the tile tasks that prefetch_tiles spawned, and where each stands
    acall,     \* SpecArchive: the last load of a PmtilesTileLoader
    wloader,   \* SpecWeb: the WebVtLoader, once made
    cache,     \* the flat cache of the WebVtLoader: the bytes stored by URL
    call,      \* the last load of the WebVtLoader
    stored,    \* history: the URLs an insert into the flat cache succeeded for
    rloop      \* SpecRender: the RenderLoop, its channel and its task

\* The variables of the range cache and those of the displayed tiles.
cacheVars == <<tree, files, rd, hist, marked, gone, ndel>>
tileVars == <<tiles, fade_in_duration, now, pass, steady>>
lockVars == <<lock, updating, committed>>
schemaVars == <<cover, mercator>>
prefetchVars == <<prefetch, sem, ttask>>
webVars == <<wloader, cache, call, stored>>
loaderVars == <<acall, wloader, cache, call, stored>>

vars == <<tree, files, rd, hist, marked, gone, ndel,
          tiles, fade_in_duration, now, pass, steady, lock, updating, committed,
          cover, mercator, prefetch, sem, ttask, acall, wloader, cache, call, stored, rloop>>

\* The histories that only Spec and SpecFaulty keep.
seqHist == <<hist, marked, gone>>

\* ------------------------------------------------------------- the index
\* CoveringEntry, were the tree asked for the key `at` alone.
CoveringEntryExactKey(tr, at) == {e \in tr : e[1] = at}

\* The entry with the greatest key <= at, if it extends past at
\* (tree.range(..=key).rev().next() and the test start + len > at).
CoveringEntry(tr, at) ==
    LET le == {e \in tr : e[1] <= at} IN
    IF le = {} THEN {}
    ELSE LET m == CHOOSE e \in le : \A f \in le : f[1] <= e[1] IN
         IF m[1] + m[2] > at THEN {m} ELSE {}

\* The entry with the smallest key >= at (tree.range(key..).next()).
NextEntry(tr, at) ==
    LET ge == {e \in tr : e[1] >= at} IN
    IF ge = {} THEN {}
    ELSE {CHOOSE e \in ge : \A f \in ge : e[1] <= f[1]}

\* get_next_range_at_or_after on one snapshot of the tree: {} is None.
get_next_range_at_or_after(tr, at) ==
    IF CoveringEntry(tr, at) # {} THEN CoveringEntry(tr, at) ELSE NextEntry(tr, at)

\* tree.insert(offset, length): the value of an existing key is replaced.
record_range(tr, o, l) == {e \in tr : e[1] # o} \cup {<<o, l>>}

\* tree_remove, were the stale entry left in the tree.
tree_remove_nothing(tr, k) == tr

\* tree.remove(start): by key alone, whatever length is recorded under it.
tree_remove(tr, k) == {e \in tr : e[1] # k}

\* --------------------------------------------------------- the span files
NoFile == [present |-> FALSE, data |-> <<>>]

\* File::create of std::fs::write: the file exists and is empty.
Truncated == [present |-> TRUE, data |-> <<>>]

\* write_all of std::fs::write: buf is written from position 0.
Written(f, buf) ==
    [present |-> TRUE,
     data |-> IF Len(buf) >= Len(f.data) THEN buf
              ELSE buf \o SubSeq(f.data, Len(buf) + 1, Len(f.data))]

\* ------------------------------------------------------------ fetch_and_store
\* error_for_status, were the call left out.
error_for_status_skipped(s) == FALSE

\* response.error_for_status(): a 4xx or 5xx status is an error.
error_for_status(s) == s >= 400 /\ s <= 599

\* What fetch_and_store makes of the status of the response.
StatusOutcome(s) ==
    IF error_for_status(s) THEN "Reqwest"
    ELSE IF s # PARTIAL_CONTENT THEN "RangeRequestsUnsupported"
    ELSE "Ok"

\* BodyOutcome, were the length of the body not checked.
BodyOutcomeUnchecked(b, l) == "Ok"

\* What fetch_and_store makes of the response body for a request of l bytes.
BodyOutcome(b, l) == IF Len(b) > l THEN "ResponseBodyTooLong" ELSE "Ok"

\* StoreOrder, were the span recorded before its file is written.
StoreOrderRecordFirst == <<"record", "create", "write">>

\* The steps by which fetch_and_store persists a response, in order:
\* std::fs::write (create, then write) and then record_range.
StoreOrder == <<"create", "write", "record">>

\* Where fetch_and_store stands after store step p: the next store step, or
\* back in read with the bytes ("copy").
AfterStore(p) ==
    LET i == CHOOSE j \in 1 .. Len(StoreOrder) : StoreOrder[j] = p IN
    IF i < Len(StoreOrder) THEN StoreOrder[i + 1] ELSE "copy"

\* The suspension points of fetch_and_store (client.execute(req).await and
\* response.bytes().await): where a dropped or aborted call stops.
AwaitPoints == {"await_exec", "await_body"}

\* ------------------------------------------------------------------ read
Idle ==
    [pc |-> "idle", offset |-> 0, length |-> 0, cursor |-> 0, out |-> <<>>,
     found |-> <<0, 0>>, fetch |-> <<0, 0>>, via |-> "none", status |-> 0,
     body |-> <<>>, result |-> "none"]

Terminal == {"done", "failed", "panicked", "aborted"}

AllIdle == \A t \in Tasks : rd[t].pc = "idle"

\* CopyInto, were every piece placed at the start of out (cursor - offset
\* forgotten).
CopyIntoAtStart(out, at, data, from, n) ==
    [i \in 1 .. Len(out) |->
        IF i <= n THEN data[from + i] ELSE out[i]]

\* CopyInto, were the bytes taken from the start of data (rel forgotten).
CopyIntoFromStart(out, at, data, from, n) ==
    [i \in 1 .. Len(out) |->
        IF i > at /\ i <= at + n THEN data[i - at] ELSE out[i]]

\* out[(cursor - offset)..(cursor - offset + n)].copy_from_slice(data[from..from + n])
CopyInto(out, at, data, from, n) ==
    [i \in 1 .. Len(out) |->
        IF i > at /\ i <= at + n THEN data[from + (i - at)] ELSE out[i]]

\* CursorAfter, were the cursor left where it is.
CursorAfterStuck(cursor, n) == cursor

\* cursor += take, cursor += gap_len
CursorAfter(cursor, n) == cursor + n

\* Take, were the end of the request not taken into account.
TakeNoMin(r) == r.found[1] + r.found[2] - r.cursor

\* let take = (start_end.min(end)) - cursor
Take(r) ==
    LET start_end == r.found[1] + r.found[2]
        end == r.offset + r.length IN
    (IF start_end < end THEN start_end ELSE end) - r.cursor

\* GapLen, were the gap fetched up to the end of the request whatever the
\* next entry.
GapLenToEnd(r) == r.offset + r.length - r.cursor

\* let gap_len = (start - cursor).min(end - cursor)
GapLen(r) ==
    LET a == r.found[1] - r.cursor
        b == r.offset + r.length - r.cursor IN
    IF a < b THEN a ELSE b

\* The call of fetch_and_store(o, l): the request is built and sent.
Send(r, o, l, via) ==
    [r EXCEPT !.pc = "await_exec", !.fetch = <<o, l>>, !.via = via,
              !.status = 0, !.body = <<>>]

\* Fail, were the error of fetch_and_store dropped and the loop left with Ok.
FailSwallowed(r, e) == [r EXCEPT !.pc = "done", !.result = "Ok"]

\* fetch_and_store, and with it read, returns Err(e) through `?`.
Fail(r, e) == [r EXCEPT !.pc = "failed", !.result = e]

\* read(offset, length) is called: cursor = offset, out = vec![0u8; length].
StartRead(t, o, l) ==
    /\ rd[t].pc = "idle"
    /\ rd' = [rd EXCEPT ![t] = [Idle EXCEPT !.pc = "loop", !.offset = o,
                                  !.length = l, !.cursor = o,
                                  !.out = [i \in 1 .. l |-> 0]]]
    /\ UNCHANGED <<tree, files>>

\* while cursor < end is false: Ok(Bytes::from(out)).
Finish(t) ==
    /\ rd[t].pc = "loop"
    /\ rd[t].cursor >= rd[t].offset + rd[t].length
    /\ rd' = [rd EXCEPT ![t].pc = "done", ![t].result = "Ok"]
    /\ UNCHANGED <<tree, files>>

\* get_next_range_at_or_after, first query of the tree.
Lookup1(t) ==
    /\ rd[t].pc = "loop"
    /\ rd[t].cursor < rd[t].offset + rd[t].length
    /\ LET c == CoveringEntry(tree, rd[t].cursor) IN
       rd' = [rd EXCEPT ![t] =
                IF c # {} THEN [@ EXCEPT !.pc = "have",
                                        !.found = CHOOSE e \in c : TRUE]
                ELSE [@ EXCEPT !.pc = "lookup2"]]
    /\ UNCHANGED <<tree, files>>

\* get_next_range_at_or_after, second query of the tree; on None read fetches
\* the whole rest, gap_len = end - cursor.
Lookup2(t) ==
    /\ rd[t].pc = "lookup2"
    /\ LET n == NextEntry(tree, rd[t].cursor) IN
       rd' = [rd EXCEPT ![t] =
                IF n # {} THEN [@ EXCEPT !.pc = "have",
                                        !.found = CHOOSE e \in n : TRUE]
                ELSE Send(@, @.cursor, @.offset + @.length - @.cursor, "rest")]
    /\ UNCHANGED <<tree, files>>

\* if start > cursor: the gap before the next span is fetched.
FetchGap(t) ==
    /\ rd[t].pc = "have"
    /\ rd[t].found[1] > rd[t].cursor
    /\ rd' = [rd EXCEPT ![t] = Send(@, @.cursor, GapLen(@), "gap")]
    /\ UNCHANGED <<tree, files>>

\* std::fs::read(range_path(start, len)) is Ok(bytes): the slice
\* bytes[rel..rel + take] is copied into out. A take below 0 (usize), a slice
\* past the end of bytes or past the end of out is a panic.
ReadFile(t) ==
    /\ rd[t].pc = "have"
    /\ rd[t].found[1] <= rd[t].cursor
    /\ files[rd[t].found].present
    /\ LET r == rd[t]
           bytes == files[r.found].data
           take == Take(r)
           rel == r.cursor - r.found[1] IN
       rd' = [rd EXCEPT ![t] =
                IF \/ take < 0
                   \/ rel + take > Len(bytes)
                   \/ r.cursor - r.offset + take > Len(r.out)
                THEN [@ EXCEPT !.pc = "panicked"]
                ELSE [@ EXCEPT !.pc = "loop", !.found = Idle.found,
                               !.out = CopyInto(r.out, r.cursor - r.offset,
                                                bytes, rel, take),
                               !.cursor = CursorAfter(r.cursor, take)]]
    /\ UNCHANGED <<tree, files>>

\* std::fs::read is Err(_): the index entry is stale.
ReadFileMissing(t) ==
    /\ rd[t].pc = "have"
    /\ rd[t].found[1] <= rd[t].cursor
    /\ ~files[rd[t].found].present
    /\ rd' = [rd EXCEPT ![t].pc = "stale"]
    /\ UNCHANGED <<tree, files>>

\* let _ = self.tree.remove(start), then fetch_and_store(cursor, take).
RemoveStale(t) ==
    /\ rd[t].pc = "stale"
    /\ tree' = tree_remove(tree, rd[t].found[1])
    /\ rd' = [rd EXCEPT ![t] = Send(@, @.cursor, Take(@), "stale")]
    /\ UNCHANGED files

\* client.execute(req).await fails: a transport error.
ExecFail(t) ==
    /\ rd[t].pc = "await_exec"
    /\ rd' = [rd EXCEPT ![t] = Fail(@, "Reqwest")]
    /\ UNCHANGED <<tree, files>>

\* client.execute(req).await answers with status s.
ExecStatus(t, s) ==
    /\ rd[t].pc = "await_exec"
    /\ rd' = [rd EXCEPT ![t] =
                IF StatusOutcome(s) = "Ok"
                THEN [@ EXCEPT !.pc = "await_body", !.status = s]
                ELSE Fail([@ EXCEPT !.status = s], StatusOutcome(s))]
    /\ UNCHANGED <<tree, files>>

\* response.bytes().await fails: a transport error.
BodyFail(t) ==
    /\ rd[t].pc = "await_body"
    /\ rd' = [rd EXCEPT ![t] = Fail(@, "Reqwest")]
    /\ UNCHANGED <<tree, files>>

\* response.bytes().await yields the body b.
BodyArrives(t, b) ==
    /\ rd[t].pc = "await_body"
    /\ rd' = [rd EXCEPT ![t] =
                IF BodyOutcome(b, @.fetch[2]) = "Ok"
                THEN [@ EXCEPT !.pc = StoreOrder[1], !.body = b]
                ELSE Fail([@ EXCEPT !.body = b], BodyOutcome(b, @.fetch[2]))]
    /\ UNCHANGED <<tree, files>>

\* std::fs::write, File::create: the span file exists and is empty.
CreateFile(t) ==
    /\ rd[t].pc = "create"
    /\ files' = [files EXCEPT ![rd[t].fetch] = Truncated]
    /\ rd' = [rd EXCEPT ![t].pc = AfterStore("create")]
    /\ UNCHANGED tree

\* std::fs::write fails (in File::create, before any file is touched).
CreateFileFail(t) ==
    /\ rd[t].pc = "create"
    /\ rd' = [rd EXCEPT ![t] = Fail(@, "Io")]
    /\ UNCHANGED <<tree, files>>

\* std::fs::write, write_all: the response bytes are in the span file.
WriteFile(t) ==
    /\ rd[t].pc = "write"
    /\ files' = [files EXCEPT ![rd[t].fetch] = Written(@, rd[t].body)]
    /\ rd' = [rd EXCEPT ![t].pc = AfterStore("write")]
    /\ UNCHANGED tree

\* self.record_range(offset, length)
Record(t) ==
    /\ rd[t].pc = "record"
    /\ tree' = record_range(tree, rd[t].fetch[1], rd[t].fetch[2])
    /\ rd' = [rd EXCEPT ![t].pc = AfterStore("record")]
    /\ UNCHANGED files

\* Back in read: out[..].copy_from_slice(&fetched), a panic when the slice
\* ends past out or the lengths differ; then cursor += gap_len (or take), or
\* cursor = end.
CopyFetched(t) ==
    /\ rd[t].pc = "copy"
    /\ LET r == rd[t] IN
       rd' = [rd EXCEPT ![t] =
                IF \/ r.cursor - r.offset + r.fetch[2] > Len(r.out)
                   \/ Len(r.body) # r.fetch[2]
                THEN [@ EXCEPT !.pc = "panicked"]
                ELSE [@ EXCEPT !.pc = "loop", !.found = Idle.found,
                               !.fetch = Idle.fetch, !.via = Idle.via,
                               !.status = Idle.status, !.body = Idle.body,
                               !.out = CopyInto(r.out, r.cursor - r.offset,
                                                r.body, 0, r.fetch[2]),
                               !.cursor = IF r.via = "rest"
                                          THEN r.offset + r.length
                                          ELSE CursorAfter(r.cursor, r.fetch[2])]]
    /\ UNCHANGED <<tree, files>>

\* The future of the call is dropped, or its task aborted, at an await.
Abort(t) ==
    /\ rd[t].pc \in AwaitPoints
    /\ rd' = [rd EXCEPT ![t].pc = "aborted"]
    /\ UNCHANGED <<tree, files>>

\* The caller has the result of the call.
Return(t) ==
    /\ rd[t].pc \in Terminal
    /\ rd' = [rd EXCEPT ![t] = Idle]
    /\ UNCHANGED <<tree, files>>

\* A span file is deleted out-of-band.
Delete(s) ==
    /\ files[s].present
    /\ files' = [files EXCEPT ![s] = NoFile]
    /\ UNCHANGED <<tree, rd>>

\* ------------------------------------------------------------- histories
\* What the sequential specifications remember of the running call: the
\* number of range requests it has sent, the stale entries it has removed
\* (with the span it fetched instead), the spans it has recorded.
NoHist == [nfetch |-> 0, healed |-> {}, stored |-> {}]

\* The history of task t's call after a step of it.
Observe(t) ==
    /\ hist' =
         IF rd[t].pc = "idle" THEN NoHist
         ELSE [nfetch |-> IF rd[t].pc # "await_exec" /\ rd'[t].pc = "await_exec"
                          THEN hist.nfetch + 1 ELSE hist.nfetch,
               healed |-> IF rd[t].pc = "stale" /\ rd'[t].pc # "stale"
                          THEN hist.healed \cup {<<rd[t].found, rd'[t].fetch>>}
                          ELSE hist.healed,
               stored |-> IF rd[t].pc = "record" /\ rd'[t].pc # "record"
                          THEN hist.stored \cup {rd[t].fetch}
                          ELSE hist.stored]
    /\ gone' =
         IF rd[t].pc = "create" /\ rd'[t].pc # "failed" THEN gone \ {rd[t].fetch}
         ELSE IF rd[t].pc = "stale" /\ rd'[t].pc # "stale" THEN gone \ {rd[t].found}
         ELSE gone
    /\ UNCHANGED <<marked, ndel>>

\* The call that returns is, or is not, the one later calls are compared with.
Mark(t, mark) ==
    /\ mark => rd[t].pc = "done"
    /\ marked' = IF mark THEN {<<rd[t].offset, rd[t].length>>} ELSE marked
    /\ UNCHANGED <<hist, gone, ndel>>

\* ------------------------------------------------------ the displayed tiles
\* Option: None is the empty set and Some(v) the set of v alone.
None == {}
Some(v) == {v}
Unwrap(o) == CHOOSE v \in o : TRUE

\* The schema of the container: origin (0, 0), tiles of 1 x 1 pixels,
\* y upwards, level 0 at resolution 2 and level 1 at resolution 1.
TileSchema ==
    [origin_x |-> 0, origin_y |-> 0, tile_width |-> 1, tile_height |-> 1,
     y_direction |-> "BottomToTop", lods |-> (0 :> 2 @@ 1 :> 1)]

\* schema.lod_resolution(z)
lod_resolution(schema, z) ==
    IF z \in DOMAIN schema.lods THEN Some(schema.lods[z]) ELSE None

\* The rectangle of the tile in column x and row y of level z:
\* [origin.x + x * tile_w, origin.x + (x + 1) * tile_w] by
\* [origin.y -+ y * tile_h, origin.y -+ (y + 1) * tile_h].
tile_bbox_at(schema, x, y, z) ==
    IF lod_resolution(schema, z) = None THEN None
    ELSE LET tile_w == Unwrap(lod_resolution(schema, z)) * schema.tile_width
             tile_h == Unwrap(lod_resolution(schema, z)) * schema.tile_height IN
         Some([x_min |-> schema.origin_x + x * tile_w,
          x_max |-> schema.origin_x + (x + 1) * tile_w,
          y_min |-> IF schema.y_direction = "TopToBottom"
                    THEN schema.origin_y - (y + 1) * tile_h
                    ELSE schema.origin_y + y * tile_h,
          y_max |-> IF schema.y_direction = "TopToBottom"
                    THEN schema.origin_y - y * tile_h
                    ELSE schema.origin_y + (y + 1) * tile_h])

\* tile_schema.tile_bbox(index) of a WrappingTileIndex: the tile is drawn
\* in the column it is displayed in.
tile_bbox(schema, index) == tile_bbox_at(schema, index.display_x, index.y, index.z)

\* Rect::intersects, were it never true.
intersects_never(a, b) == FALSE

\* Rect::intersects: the closed rectangles share a point.
intersects(a, b) ==
    /\ a.x_min <= b.x_max /\ b.x_min <= a.x_max
    /\ a.y_min <= b.y_max /\ b.y_min <= a.y_max

\* WrappingTileIndex { x, y, z, display_x }
WIndex(x, y, z, dx) == [x |-> x, y |-> y, z |-> z, display_x |-> dx]

\* The wrapping tile indices the view asks for: the tile of level 0, the
\* first tile of level 1 inside it, the same tile displayed once more one
\* world further east, and a tile of a level the schema does not have.
WrappingIndices ==
    {WIndex(0, 0, 0, 0), WIndex(0, 0, 1, 0), WIndex(0, 0, 1, 2), WIndex(0, 0, 2, 0)}

\* impl From<WrappingTileIndex> for TileIndex
TileIndexOf(index) == [x |-> index.x, y |-> index.y, z |-> index.z]

\* The style ids of the layer.
StyleIds == {1, 2}

\* The values set_fade_in_duration is called with, in milliseconds.
FadeDurations == {1, 2, 4, DEFAULT_FADE_IN_DURATION}

\* The time that passes between two calls, in microseconds.
Ticks == {1999}

\* The style of the layer while SpecFade runs.
FadeStyleIds == {1}

\* The tile of level 0 and the tile of level 1 inside it.
FadeIndices == {WIndex(0, 0, 0, 0), WIndex(0, 0, 1, 0)}

\* The one tile the view asks for, once or more than once in a call.
DupIndices == {WIndex(0, 0, 0, 0)}

\* The needed_indices of a call: every sequence of at most n of the indices.
NeededLists(indices, n) == UNION {[1 .. m -> indices] : m \in 0 .. n}

\* Opacities are the fractions <<n, d>> = n / d.
OpacityZero == <<0, 1>>
OpacityOne == <<1, 1>>

\* a <= b and a = b of two opacities
OpLe(a, b) == a[1] * b[2] <= b[1] * a[2]
OpEq(a, b) == a[1] * b[2] = b[1] * a[2]

\* is_opaque, were only opacity 1.0 opaque.
is_opaque_exact(d) == d.opacity[1] >= d.opacity[2]

\* DisplayedTile::is_opaque: self.opacity >= 0.999
is_opaque(d) == d.opacity[1] * 1000 >= 999 * d.opacity[2]

\* requires_animation, were a duration of 1 ms animated.
requires_animation_from_one(fade) == fade >= 1

\* TilesContainer::requires_animation: fade_in_duration > 1 (milliseconds)
requires_animation(fade) == fade > 1

\* FadeOpacity, were the elapsed time taken at the instant of admission.
FadeOpacityAtAdmission(t, displayed_at, fade_in_time) ==
    IF fade_in_time > 1 THEN OpacityZero ELSE OpacityOne

\* FadeOpacity, were the elapsed time not divided by the duration.
FadeOpacityNoRamp(t, displayed_at, fade_in_time) == OpacityOne

\* The opacity of a displayed tile that is not opaque, at time t:
\*   if fade_in_secs > 0.001 { ((now - displayed_at) / fade_in_secs).min(1.0) }
\*   else { 1.0 }
\* with fade_in_time in whole milliseconds (more than 0.001 s is more than
\* 1 ms) and the instants in microseconds; duration_since is 0 for an
\* instant that is not earlier.
FadeOpacity(t, displayed_at, fade_in_time) ==
    IF fade_in_time > 1
    THEN LET elapsed == IF t > displayed_at THEN t - displayed_at ELSE 0 IN
         IF elapsed >= fade_in_time * 1000 THEN OpacityOne
         ELSE IF elapsed = 0 THEN OpacityZero
         ELSE <<elapsed, fade_in_time * 1000>>
    ELSE OpacityOne

\* The position of the first displayed tile with this index and style, or 0:
\* displayed_tiles.iter_mut().find(..)
FindDisplayed(displayed, index, style_id) ==
    LET found == {i \in 1 .. Len(displayed) :
                     displayed[i].index = index /\ displayed[i].style_id = style_id} IN
    IF found = {} THEN 0 ELSE CHOOSE i \in found : \A j \in found : i <= j

\* The tile that is admitted for a bundle the provider returned.
NewTile(index, style_id, bundle, t, anim) ==
    [index |-> index, bundle |-> bundle, style_id |-> style_id,
     opacity |-> IF anim THEN OpacityZero ELSE OpacityOne,
     displayed_at |-> t]

\* The locals of update_displayed_tiles before its first loop.
PassStart(style_id, t, fade_in_time) ==
    [style_id |-> style_id, now |-> t, fade_in_time |-> fade_in_time,
     needed_tiles |-> <<>>, to_substitute |-> <<>>, requires_redraw |-> FALSE]

\* NeededStep, were a provider miss not recorded for substitution.
NeededStepMissDropped(displayed, loc, index, answer, anim) ==
    LET i == FindDisplayed(displayed, index, loc.style_id) IN
    IF i # 0 THEN
        LET upd == [displayed[i] EXCEPT
                       !.opacity = FadeOpacity(loc.now, displayed[i].displayed_at,
                                             loc.fade_in_time)] IN
        IF ~is_opaque(displayed[i])
        THEN [displayed |-> [displayed EXCEPT ![i] = upd],
              loc |-> [loc EXCEPT !.to_substitute = Append(@, index),
                                  !.requires_redraw = TRUE,
                                  !.needed_tiles = Append(@, upd)]]
        ELSE [displayed |-> displayed,
              loc |-> [loc EXCEPT !.needed_tiles = Append(@, displayed[i])]]
    ELSE IF answer = None
    THEN [displayed |-> displayed, loc |-> loc]
    ELSE [displayed |-> displayed,
          loc |-> [loc EXCEPT
                     !.needed_tiles =
                         Append(@, NewTile(index, loc.style_id, Unwrap(answer), loc.now, anim)),
                     !.to_substitute = Append(@, index),
                     !.requires_redraw = TRUE]]

\* One turn of the loop over needed_indices (lines 71-106), on the displayed
\* tiles and the locals; answer is what get_tile returns if it is asked and
\* anim what requires_animation returns if a tile is admitted.
NeededStep(displayed, loc, index, answer, anim) ==
    LET i == FindDisplayed(displayed, index, loc.style_id) IN
    IF i # 0 THEN
        LET upd == [displayed[i] EXCEPT
                       !.opacity = FadeOpacity(loc.now, displayed[i].displayed_at,
                                             loc.fade_in_time)] IN
        IF ~is_opaque(displayed[i])
        THEN [displayed |-> [displayed EXCEPT ![i] = upd],
              loc |-> [loc EXCEPT !.to_substitute = Append(@, index),
                                  !.requires_redraw = TRUE,
                                  !.needed_tiles = Append(@, upd)]]
        ELSE [displayed |-> displayed,
              loc |-> [loc EXCEPT !.needed_tiles = Append(@, displayed[i])]]
    ELSE IF answer = None
    THEN [displayed |-> displayed,
          loc |-> [loc EXCEPT !.to_substitute = Append(@, index)]]
    ELSE [displayed |-> displayed,
          loc |-> [loc EXCEPT
                     !.needed_tiles =
                         Append(@, NewTile(index, loc.style_id, Unwrap(answer), loc.now, anim)),
                     !.to_substitute = Append(@, index),
                     !.requires_redraw = TRUE]]

\* The loop over needed_indices: NeededStep for each index in turn.
RECURSIVE Reconcile(_, _, _, _, _)
Reconcile(displayed, loc, needed, answers, anims) ==
    IF needed = <<>> THEN [displayed |-> displayed, loc |-> loc]
    ELSE LET s == NeededStep(displayed, loc, Head(needed), Head(answers), Head(anims)) IN
         Reconcile(s.displayed, s.loc, Tail(needed), Tail(answers), Tail(anims))

\* needed_tiles.iter().any(|new| new.index == displayed.index
\*                            && new.style_id == displayed.style_id)
InNeeded(needed_tiles, d) ==
    \E i \in 1 .. Len(needed_tiles) :
        needed_tiles[i].index = d.index /\ needed_tiles[i].style_id = d.style_id

\* The displayed tile has a bounding box that intersects the bounding box of
\* an index of to_substitute (lines 117-130).
Covers(d, to_substitute) ==
    /\ tile_bbox(TileSchema, d.index) # None
    /\ \E i \in 1 .. Len(to_substitute) :
          /\ tile_bbox(TileSchema, to_substitute[i]) # None
          /\ intersects(Unwrap(tile_bbox(TileSchema, d.index)),
                        Unwrap(tile_bbox(TileSchema, to_substitute[i])))

\* Sweep, were no displayed tile kept for substitution.
SweepNeededOnly(displayed, loc) == loc.needed_tiles

\* The second loop and the append (lines 108-134): the displayed tiles that
\* are not needed and cover an index of to_substitute, then the needed tiles.
Sweep(displayed, loc) ==
    SelectSeq(displayed,
              LAMBDA d : ~InNeeded(loc.needed_tiles, d) /\ Covers(d, loc.to_substitute))
        \o loc.needed_tiles

\* The bundle the provider returns for a tile and a style.
Bundle(index, style_id) == <<TileIndexOf(index), style_id>>

\* tile_provider.get_tile(index.into(), style_id): a bundle, or None.
get_tile(index, style_id) == {None, Some(Bundle(index, style_id))}

\* What the provider answers at each turn of the loop of a call.
Answers(needed, style_id) ==
    {a \in [1 .. Len(needed) ->
                UNION {get_tile(needed[k], style_id) : k \in 1 .. Len(needed)}] :
        \A k \in 1 .. Len(needed) : a[k] \in get_tile(needed[k], style_id)}

\* The key of a displayed tile in the history steady.
TileKey(d) == <<d.index, d.style_id, d.displayed_at>>

\* The turns of the loop of a call that find no displayed tile with their
\* index and the style: the turns that ask the provider.
Asking(displayed, needed, style_id) ==
    {k \in 1 .. Len(needed) : FindDisplayed(displayed, needed[k], style_id) = 0}

\* No call of update_displayed_tiles has returned yet.
NoPass ==
    [calls |-> 0, needed |-> <<>>, style_id |-> 0, now |-> 0, fade_in_time |-> 0,
     missing |-> {}, admitted |-> {},
     fading |-> {}, dropped |-> {}, to_substitute |-> <<>>, ret |-> FALSE]

\* The locals and the displayed tiles of update_displayed_tiles(needed,
\* style_id) after its first loop, for the answers of the provider.
Reconciled(needed, style_id, answers) ==
    Reconcile(tiles, PassStart(style_id, now, fade_in_duration), needed, answers,
              [k \in 1 .. Len(needed) |-> requires_animation(fade_in_duration)])

\* The displayed tiles it leaves.
Updated(needed, style_id, answers) ==
    LET r == Reconciled(needed, style_id, answers) IN Sweep(r.displayed, r.loc)

\* update_displayed_tiles(needed, style_id), from the lock to the return,
\* with the answers of the provider. The history pass keeps of the call: its
\* arguments, its instant and fade-in time, the indices the provider had no
\* bundle for, the indices
\* admitted, the indices whose displayed tile was not opaque, the displayed
\* tiles dropped, to_substitute, the value returned, and whether the calls
\* so far are odd or even in number.
UpdateDisplayedTiles(needed, style_id, answers) ==
    LET r == Reconciled(needed, style_id, answers)
        asking == Asking(tiles, needed, style_id) IN
    /\ tiles' = Sweep(r.displayed, r.loc)
    /\ pass' = [calls |-> 1 - pass.calls, needed |-> needed, style_id |-> style_id,
                now |-> now, fade_in_time |-> fade_in_duration,
                missing |-> {needed[k] : k \in {j \in asking : answers[j] = None}},
                admitted |-> {needed[k] : k \in {j \in asking : answers[j] # None}},
                fading |-> {needed[k] : k \in
                              {j \in (1 .. Len(needed)) \ asking :
                                  ~is_opaque(tiles[FindDisplayed(tiles, needed[j], style_id)])}},
                dropped |-> {<<tiles[i].index, tiles[i].style_id>> : i \in
                               {j \in 1 .. Len(tiles) :
                                  \A m \in 1 .. Len(tiles') :
                                     \/ tiles'[m].index # tiles[j].index
                                     \/ tiles'[m].style_id # tiles[j].style_id}},
                to_substitute |-> r.loc.to_substitute,
                ret |-> r.loc.requires_redraw]
    /\ steady' = {TileKey(tiles'[i]) : i \in 1 .. Len(tiles')}
                    \cap (steady \cup {<<needed[k], style_id, now>> :
                                          k \in {j \in asking : answers[j] # None}})
    /\ UNCHANGED <<fade_in_duration, now>>

\* set_fade_in_duration(duration)
set_fade_in_duration(duration) ==
    /\ fade_in_duration' = duration
    /\ steady' = IF duration = fade_in_duration THEN steady ELSE {}
    /\ UNCHANGED <<tiles, now, pass>>

\* Time passes.
Tick(d) ==
    /\ now + d <= MaxTicks * d
    /\ now' = now + d
    /\ UNCHANGED <<tiles, fade_in_duration, pass, steady>>


\* ------------------------------------------- the lock of the displayed tiles
\* The threads that call update_displayed_tiles on the container, and the
\* thread that locks tiles to read them.
Callers == {1, 2}
Reader == 3

\* A thread that is not in update_displayed_tiles.
NotCalling ==
    [pc |-> "idle", needed |-> <<>>, loc |-> PassStart(0, 0, 0),
     all |-> <<>>, start |-> <<>>, answers |-> <<>>, anims |-> <<>>]

\* update_displayed_tiles(needed, style_id) is called.
Call(c, needed, style_id) ==
    /\ updating[c].pc = "idle"
    /\ updating' = [updating EXCEPT ![c] = [NotCalling EXCEPT
                 !.pc = "lock", !.needed = needed, !.all = needed,
                 !.loc = PassStart(style_id, 0, 0)]]
    /\ UNCHANGED <<tiles, fade_in_duration, now, lock, committed>>

\* Lock, were the tiles taken without waiting for the mutex.
LockNoWait(c) ==
    /\ updating[c].pc = "lock"
    /\ lock' = c
    /\ updating' = [updating EXCEPT ![c].pc = "init", ![c].start = tiles]
    /\ UNCHANGED <<tiles, fade_in_duration, now, committed>>

\* let mut displayed_tiles = self.tiles.lock()
Lock(c) ==
    /\ updating[c].pc = "lock"
    /\ lock = 0
    /\ lock' = c
    /\ updating' = [updating EXCEPT ![c].pc = "init", ![c].start = tiles]
    /\ UNCHANGED <<tiles, fade_in_duration, now, committed>>

\* let now = Instant::now(); let fade_in_time = self.fade_in_duration()
Begin(c) ==
    /\ updating[c].pc = "init"
    /\ updating' = [updating EXCEPT
                 ![c].pc = "loop",
                 ![c].loc = PassStart(updating[c].loc.style_id, now, fade_in_duration)]
    /\ UNCHANGED <<tiles, fade_in_duration, now, lock, committed>>

\* One turn of the loop over needed_indices, with the answer of the provider
\* and fade_in_duration as requires_animation loads it in this turn.
Turn(c, answer) ==
    /\ updating[c].pc = "loop"
    /\ updating[c].needed # <<>>
    /\ LET anim == requires_animation(fade_in_duration)
           st == NeededStep(tiles, updating[c].loc, Head(updating[c].needed), answer, anim) IN
       /\ tiles' = st.displayed
       /\ updating' = [updating EXCEPT ![c].loc = st.loc,
                             ![c].needed = Tail(updating[c].needed),
                             ![c].answers = Append(updating[c].answers, answer),
                             ![c].anims = Append(updating[c].anims, anim)]
    /\ UNCHANGED <<fade_in_duration, now, lock, committed>>

\* The second loop, *displayed_tiles = new_displayed, and the return of
\* requires_redraw, which drops the guard.
SweepAndUnlock(c) ==
    /\ updating[c].pc = "loop"
    /\ updating[c].needed = <<>>
    /\ tiles' = Sweep(tiles, updating[c].loc)
    /\ lock' = IF lock = c THEN 0 ELSE lock
    /\ committed' = tiles'
    /\ updating' = [updating EXCEPT ![c] = NotCalling]
    /\ UNCHANGED <<fade_in_duration, now>>

\* The reader locks tiles.
ReaderLock ==
    /\ lock = 0
    /\ lock' = Reader
    /\ UNCHANGED <<tiles, fade_in_duration, now, updating, committed>>

\* The reader has read the tiles and drops its guard.
ReaderUnlock ==
    /\ lock = Reader
    /\ lock' = 0
    /\ UNCHANGED <<tiles, fade_in_duration, now, updating, committed>>

\* set_fade_in_duration(duration) by any thread: a store to the atomic.
StoreFade(duration) ==
    /\ fade_in_duration' = duration
    /\ UNCHANGED <<tiles, now, lock, updating, committed>>


\* --------------------------------------------------- tiles_for_bbox_and_res
\* Coordinates are whole numbers of 1/2000 map unit; the quotients and
\* remainders of the code's f64 arithmetic are taken exactly.

\* The schemas of SpecCover: origin (-1000, 1000), tiles of 2 x 2 pixels,
\* level 0 at 2000 and level 1 at 1000 units per pixel, rows counted
\* downwards or upwards.
CoverSchema(y_direction) ==
    [origin_x |-> -1000, origin_y |-> 1000, tile_width |-> 2, tile_height |-> 2,
     y_direction |-> y_direction, lods |-> (0 :> 2000 @@ 1 :> 1000)]

VerticalDirections == {"TopToBottom", "BottomToTop"}

\* The x and the y coordinates of the corners of the boxes: at every half
\* tile of level 1 around the origin, and one and two units above it.
CoverXs ==
    {CoverSchema("TopToBottom").origin_x + k * 1000 + e :
        k \in (0 - CoverSpan) .. CoverSpan, e \in {0, 1, 2}}
CoverYs ==
    {CoverSchema("TopToBottom").origin_y + k * 1000 + e :
        k \in (0 - CoverSpan) .. CoverSpan, e \in {0, 1, 2}}

\* galileo_types::cartesian::Rect: the boxes with a width and a height, those
\* with none (x_min = x_max or y_min = y_max) and the inverted ones
CoverBoxes ==
    {[x_min |-> a, x_max |-> b, y_min |-> c, y_max |-> d] :
        a \in CoverXs, b \in CoverXs, c \in CoverYs, d \in CoverYs}

\* f64::floor of a / b, for b > 0
FloorDiv(a, b) == a \div b

\* (a / b) as i32, for b > 0: the quotient rounded towards zero
TruncDiv(a, b) == IF a >= 0 THEN a \div b ELSE 0 - ((0 - a) \div b)

\* a % b of two f64, for b > 0: the remainder has the sign of a
Rem(a, b) == a - b * TruncDiv(a, b)

\* AddOne, were the last row or column never corrected.
AddOneNever(max_adj, tile) == 0

\* let x_add_one = if (x_max_adj % tile_w) < 0.001 { -1 } else { 0 }
AddOne(max_adj, tile) == IF Rem(max_adj, tile) < TOLERANCE THEN -1 ELSE 0

\* tiles_for_bbox_and_res(schema, bbox, resolution, z): the tile indices of
\* the Vec it returns
tiles_for_bbox_and_res(schema, bbox, resolution, z) ==
    LET tile_w == resolution * schema.tile_width
        tile_h == resolution * schema.tile_height
        x_adj(x) == x - schema.origin_x
        y_adj(y) == IF schema.y_direction = "TopToBottom"
                    THEN schema.origin_y - y ELSE y - schema.origin_y
        x_min == FloorDiv(x_adj(bbox.x_min), tile_w)
        x_max_adj == x_adj(bbox.x_max)
        x_max == TruncDiv(x_max_adj, tile_w) + AddOne(x_max_adj, tile_w)
        top == IF schema.y_direction = "TopToBottom" THEN bbox.y_min ELSE bbox.y_max
        bottom == IF schema.y_direction = "TopToBottom" THEN bbox.y_max ELSE bbox.y_min
        y_min == TruncDiv(y_adj(bottom), tile_h)
        y_max_adj == y_adj(top)
        y_max == TruncDiv(y_max_adj, tile_h) + AddOne(y_max_adj, tile_h) IN
    {[x |-> x, y |-> y, z |-> z] : x \in x_min .. x_max, y \in y_min .. y_max}

\* tiles_for_bbox_and_res has not been called.
NoCover ==
    [called |-> FALSE, y_direction |-> "TopToBottom",
     bbox |-> [x_min |-> 0, x_max |-> 0, y_min |-> 0, y_max |-> 0], z |-> 0, out |-> {}]

\* prefetch_tiles calls tiles_for_bbox_and_res for a level of the schema:
\*   if let Some(resolution) = schema.lod_resolution(z) { .. }
Cover(y_direction, bbox, z) ==
    LET schema == CoverSchema(y_direction) IN
    /\ lod_resolution(schema, z) # None
    /\ cover' = [called |-> TRUE, y_direction |-> y_direction, bbox |-> bbox, z |-> z,
                 out |-> tiles_for_bbox_and_res(schema, bbox,
                                                Unwrap(lod_resolution(schema, z)), z)]

\* ------------------------------------------ the schema of examples/pmtiles.rs
\* An f64 of the WebMercator schema is kept exactly, as <<h, m, l>> for
\* h + m / 2^19 + l / 2^38 with 0 <= m, l < 2^19: every coordinate, resolution
\* and tile size below is a whole number of 2^-38, and the differences and
\* remainders the code takes of them are exact in f64.
Limb == 524288

FZero == <<0, 0, 0>>

\* a + b
FAdd(a, b) ==
    LET l == a[3] + b[3]
        m == a[2] + b[2] + (l \div Limb) IN
    <<a[1] + b[1] + (m \div Limb), m % Limb, l % Limb>>

\* -a
FNeg(a) ==
    IF a[2] = 0 /\ a[3] = 0 THEN <<0 - a[1], 0, 0>>
    ELSE IF a[3] = 0 THEN <<0 - a[1] - 1, Limb - a[2], 0>>
    ELSE <<0 - a[1] - 1, Limb - 1 - a[2], Limb - a[3]>>

\* a - b
FSub(a, b) == FAdd(a, FNeg(b))

\* a < b
FLt(a, b) ==
    \/ a[1] < b[1]
    \/ a[1] = b[1] /\ a[2] < b[2]
    \/ a[1] = b[1] /\ a[2] = b[2] /\ a[3] < b[3]

\* a * n of an f64 and a whole number n >= 0
RECURSIVE FMulInt(_, _)
FMulInt(a, n) ==
    IF n = 0 THEN FZero
    ELSE IF n % 2 = 0 THEN LET h == FMulInt(a, n \div 2) IN FAdd(h, h)
    ELSE FAdd(a, FMulInt(a, n - 1))

\* How many times b > 0 goes into a >= 0.
RECURSIVE FCount(_, _)
FCount(a, b) == IF FLt(a, b) THEN 0 ELSE 1 + FCount(FSub(a, b), b)

\* (a / b) as i32, for b > 0: the quotient rounded towards zero. The quotients
\* taken here are below 4 and, when not whole, further from a whole number
\* than the rounding of the f64 division.
FTruncDiv(a, b) == IF a[1] >= 0 THEN FCount(a, b) ELSE 0 - FCount(FNeg(a), b)

\* a % b of two f64, for b > 0: the remainder has the sign of a
FRem(a, b) ==
    IF a[1] >= 0 THEN FSub(a, FMulInt(b, FCount(a, b)))
    ELSE FNeg(FSub(FNeg(a), FMulInt(b, FCount(FNeg(a), b))))

\* (a / b).floor() as i32, for b > 0
FFloorDiv(a, b) ==
    IF a[1] < 0 /\ FRem(a, b) # FZero THEN FTruncDiv(a, b) - 1 ELSE FTruncDiv(a, b)

\* 0.001 as the comparison sees it: the least whole number of 2^-38 that is
\* not below the f64 0.001
FTolerance == <<0, 524, 150995>>

\* FAddOne, were the last row or column never corrected.
FAddOneNever(max_adj, tile) == 0

\* let x_add_one = if (x_max_adj % tile_w) < 0.001 { -1 } else { 0 }
FAddOne(max_adj, tile) == IF FLt(FRem(max_adj, tile), FTolerance) THEN -1 ELSE 0

\* const ORIGIN: Point2 = Point2::new(-20037508.342787, 20037508.342787)
MercatorEdge == <<20037508, 179719, 58368>>

\* const TOP_RESOLUTION: f64 = 156543.03392800014 / 4.0
TOP_RESOLUTION == <<39135, 397663, 5680>>

\* lods[i - 1].resolution() / 2.0, for the level below the top
HalfTopResolution == <<19567, 460975, 264984>>

\* tile_schema(): the first two of its sixteen levels
MercatorSchema ==
    [origin_x |-> FNeg(MercatorEdge), origin_y |-> MercatorEdge,
     bounds |-> [x_min |-> FNeg(MercatorEdge), y_min |-> FNeg(MercatorEdge),
                 x_max |-> MercatorEdge, y_max |-> MercatorEdge],
     tile_width |-> 1024, tile_height |-> 1024, y_direction |-> "TopToBottom",
     lods |-> (0 :> TOP_RESOLUTION @@ 1 :> HalfTopResolution)]

\* The coordinates of the corners of the boxes on the schema: the edges of
\* the bounds, the middle, and 2^-11 and 2^-9 (below and above 0.001) inside
\* the edges.
MercatorCoords ==
    {FNeg(MercatorEdge), FAdd(FNeg(MercatorEdge), <<0, 256, 0>>),
     FAdd(FNeg(MercatorEdge), <<0, 1024, 0>>), FZero,
     FSub(MercatorEdge, <<0, 1024, 0>>), FSub(MercatorEdge, <<0, 256, 0>>),
     MercatorEdge}

\* galileo_types::cartesian::Rect on the schema, with x_min <= x_max and
\* y_min <= y_max
MercatorBoxes ==
    {[x_min |-> a, x_max |-> b, y_min |-> c, y_max |-> d] :
        a \in MercatorCoords, b \in MercatorCoords,
        c \in MercatorCoords, d \in MercatorCoords}

\* tiles_for_bbox_and_res(schema, bbox, resolution, z) on exact f64: the tile
\* indices of the Vec it returns
tiles_for_bbox_and_res_f64(schema, bbox, resolution, z) ==
    LET tile_w == FMulInt(resolution, schema.tile_width)
        tile_h == FMulInt(resolution, schema.tile_height)
        x_adj(x) == FSub(x, schema.origin_x)
        y_adj(y) == IF schema.y_direction = "TopToBottom"
                    THEN FSub(schema.origin_y, y) ELSE FSub(y, schema.origin_y)
        x_min == FFloorDiv(x_adj(bbox.x_min), tile_w)
        x_max_adj == x_adj(bbox.x_max)
        x_max == FTruncDiv(x_max_adj, tile_w) + FAddOne(x_max_adj, tile_w)
        top == IF schema.y_direction = "TopToBottom" THEN bbox.y_min ELSE bbox.y_max
        bottom == IF schema.y_direction = "TopToBottom" THEN bbox.y_max ELSE bbox.y_min
        y_min == FTruncDiv(y_adj(bottom), tile_h)
        y_max_adj == y_adj(top)
        y_max == FTruncDiv(y_max_adj, tile_h) + FAddOne(y_max_adj, tile_h) IN
    {[x |-> x, y |-> y, z |-> z] : x \in x_min .. x_max, y \in y_min .. y_max}

\* tiles_for_bbox_and_res has not been called on the schema.
NoMercator == [called |-> FALSE, bbox |-> MercatorSchema.bounds, z |-> 0, out |-> {}]

\* prefetch_tiles calls tiles_for_bbox_and_res for a level of the schema of
\* examples/pmtiles.rs and a box, config.bbox or schema.bounds.
CoverMercator(bbox, z) ==
    /\ lod_resolution(MercatorSchema, z) # None
    /\ mercator' = [called |-> TRUE, bbox |-> bbox, z |-> z,
                    out |-> tiles_for_bbox_and_res_f64(
                                MercatorSchema, bbox,
                                Unwrap(lod_resolution(MercatorSchema, z)), z)]

\* ------------------------------------------------------------ prefetch_tiles
\* PrefetchConfig of SpecPrefetch: zoom_levels, bbox and concurrency. Level 16
\* is no level of the schema; the box reaches one map unit over the left edge
\* of the bounds, where the columns have negative numbers.
PrefetchZooms == {<<0>>, <<1>>, <<16, 0>>}

PrefetchBox ==
    [x_min |-> FSub(FNeg(MercatorEdge), <<1, 0, 0>>),
     x_max |-> FAdd(FNeg(MercatorEdge), <<0, 1024, 0>>),
     y_min |-> FZero, y_max |-> FSub(MercatorEdge, <<0, 1024, 0>>)]

PrefetchConfigs ==
    {[zoom_levels |-> zs, bbox |-> b, concurrency |-> c] :
        zs \in PrefetchZooms, b \in {None, Some(PrefetchBox)}, c \in 0 .. MaxConcurrency}

\* config.bbox.unwrap_or(schema.bounds)
unwrap_or(o, default) == IF o = None THEN default ELSE Unwrap(o)

\* config.concurrency.max(1), were 0 not raised to 1.
PermitsOfConcurrency(concurrency) == concurrency

\* Semaphore::new(config.concurrency.max(1)): the permits of the pool
Permits(concurrency) == IF concurrency > 1 THEN concurrency ELSE 1

\* The tile indices of a Vec in its order: for x in x_min..=x_max { for y in
\* y_min..=y_max { .. } }
RECURSIVE TilesInOrder(_)
TilesInOrder(s) ==
    IF s = {} THEN <<>>
    ELSE LET first == CHOOSE a \in s :
                         \A b \in s : a.x < b.x \/ (a.x = b.x /\ a.y <= b.y) IN
         <<first>> \o TilesInOrder(s \ {first})

\* The tile tasks that the loop over config.zoom_levels spawns, in order: none
\* for a level the schema does not have.
RECURSIVE TileTasks(_, _, _)
TileTasks(schema, bbox, zoom_levels) ==
    IF zoom_levels = <<>> THEN <<>>
    ELSE LET z == Head(zoom_levels)
             resolution == lod_resolution(schema, z)
             out == IF resolution = None THEN <<>>
                    ELSE TilesInOrder(tiles_for_bbox_and_res_f64(
                             schema, bbox, Unwrap(resolution), z)) IN
         [k \in 1 .. Len(out) |-> [idx |-> out[k], at |-> "spawned"]]
             \o TileTasks(schema, bbox, Tail(zoom_levels))

\* pmtiles::TileCoord::new(idx.z as u8, idx.x as u32, idx.y as u32): a
\* coordinate only for a column and a row of the level; a negative number
\* cast to u32 is none.
TileCoordNew(idx) ==
    IF idx.x >= 0 /\ idx.y >= 0 /\ idx.x < 2 ^ idx.z /\ idx.y < 2 ^ idx.z
    THEN Some(idx) ELSE None

\* The tile tasks of one prefetch, by the order in which they are spawned.
TaskIds == 1 .. 4

\* The outcomes of reader.get_tile(coord).await
FetchOutcomes == {"ok", "err"}

\* No call of spawn_prefetch_for_url yet.
NoPrefetch ==
    [caller |-> "idle", header |-> "none", task |-> "none", aborted |-> FALSE,
     config |-> [zoom_levels |-> <<>>, bbox |-> None, concurrency |-> 0]]

\* The semaphore before prefetch_tiles creates it.
NoSem == [permits |-> 0, waiters |-> <<>>]

\* spawn_prefetch_for_url is called, CachedHttpBackend::try_from succeeds, and
\* the caller awaits AsyncPmTilesReader::try_from_cached_source, which reads
\* the header and the root directory of the archive through the backend: from
\* the span files when they are cached, else with a range request.
CallPrefetch(config, cached) ==
    /\ prefetch.caller = "idle"
    /\ prefetch' = [prefetch EXCEPT !.caller = "opening", !.config = config,
                                    !.header = IF cached THEN "cached" ELSE "requested"]
    /\ UNCHANGED <<sem, ttask>>

\* CachedHttpBackend::try_from(client, url, cache_root)? fails.
CallPrefetchFails(config) ==
    /\ prefetch.caller = "idle"
    /\ prefetch' = [prefetch EXCEPT !.caller = "err", !.config = config]
    /\ UNCHANGED <<sem, ttask>>

\* try_from_cached_source(..).await? fails: the caller gets the error.
OpenFails ==
    /\ prefetch.caller = "opening"
    /\ prefetch' = [prefetch EXCEPT !.caller = "err"]
    /\ UNCHANGED <<sem, ttask>>

\* The reader is open: Ok(tokio::spawn(async move { prefetch_tiles(..).await }))
SpawnTask ==
    /\ prefetch.caller = "opening"
    /\ prefetch' = [prefetch EXCEPT !.caller = "handle", !.task = "spawned"]
    /\ UNCHANGED <<sem, ttask>>

\* The spawned task runs prefetch_tiles, which has no await: it creates the
\* semaphore, spawns a task per tile and ends.
RunPrefetch ==
    /\ prefetch.task = "spawned"
    /\ prefetch' = [prefetch EXCEPT !.task = "done"]
    /\ sem' = [permits |-> Permits(prefetch.config.concurrency), waiters |-> <<>>]
    /\ ttask' = TileTasks(MercatorSchema,
                          unwrap_or(prefetch.config.bbox, MercatorSchema.bounds),
                          prefetch.config.zoom_levels)

\* JoinHandle::abort on the returned handle: the task is cancelled if it has
\* not run yet; the tile tasks are tasks of their own and no handle of them
\* is kept.
AbortHandle ==
    /\ prefetch.caller = "handle"
    /\ ~prefetch.aborted
    /\ prefetch' = [prefetch EXCEPT !.aborted = TRUE,
                       !.task = IF prefetch.task = "spawned" THEN "cancelled"
                                ELSE prefetch.task]
    /\ UNCHANGED <<sem, ttask>>

\* What a tile task does once it holds a permit: it starts the fetch, or ends
\* at once when TileCoord::new gives None, and the permit is dropped.
WithPermit(i) ==
    IF TileCoordNew(ttask[i].idx) = None THEN "skipped" ELSE "fetching"

\* Dropping a permit: add_permits(1) hands it to the first waiter, if any.
Release(s, tt) ==
    IF s.waiters = <<>> THEN <<[s EXCEPT !.permits = s.permits + 1], tt>>
    ELSE <<[s EXCEPT !.waiters = Tail(s.waiters)],
           [tt EXCEPT ![Head(s.waiters)].at = "granted"]>>

\* Taking a permit, were one taken whether or not the pool has one.
TryAcquireAlways(s) == TRUE

\* sem.acquire_owned() finds a permit: there is one and nobody waits.
TryAcquire(s) == s.permits > 0 /\ s.waiters = <<>>

\* The first poll of a tile task: sem_cloned.acquire_owned().await takes a
\* permit, or queues the task behind the waiters.
Poll(i) ==
    /\ i \in DOMAIN ttask
    /\ ttask[i].at = "spawned"
    /\ IF TryAcquire(sem)
       THEN LET held == [sem EXCEPT !.permits = sem.permits - 1] IN
            IF WithPermit(i) = "fetching"
            THEN sem' = held /\ ttask' = [ttask EXCEPT ![i].at = "fetching"]
            ELSE /\ sem' = Release(held, [ttask EXCEPT ![i].at = "skipped"])[1]
                 /\ ttask' = Release(held, [ttask EXCEPT ![i].at = "skipped"])[2]
       ELSE /\ sem' = [sem EXCEPT !.waiters = Append(sem.waiters, i)]
            /\ ttask' = [ttask EXCEPT ![i].at = "waiting"]
    /\ UNCHANGED prefetch

\* A task that was handed a permit is polled again.
Resume(i) ==
    /\ i \in DOMAIN ttask
    /\ ttask[i].at = "granted"
    /\ IF WithPermit(i) = "fetching"
       THEN sem' = sem /\ ttask' = [ttask EXCEPT ![i].at = "fetching"]
       ELSE /\ sem' = Release(sem, [ttask EXCEPT ![i].at = "skipped"])[1]
            /\ ttask' = Release(sem, [ttask EXCEPT ![i].at = "skipped"])[2]
    /\ UNCHANGED prefetch

\* let _ = reader_ref.get_tile(coord).await: the fetch ends, with a tile or
\* an error, the task ends and _permit is dropped.
FetchEnds(i, outcome) ==
    /\ i \in DOMAIN ttask
    /\ ttask[i].at = "fetching"
    /\ sem' = Release(sem, [ttask EXCEPT ![i].at = outcome])[1]
    /\ ttask' = Release(sem, [ttask EXCEPT ![i].at = outcome])[2]
    /\ UNCHANGED prefetch

\* ---------------------------------------------------------- the tile loaders
\* The bytes of a payload: 1 is a byte that decodes as a vector tile and 0
\* one that does not; 0x1F and 0x8B are the gzip magic, and 100 and 101 are
\* the bytes 0 and 1 compressed.
GzipMagic == <<31, 139>>
PayloadBytes == {0, 1, 31, 139, 100, 101}

\* The payloads of up to n bytes.
RECURSIVE PayloadsOfLen(_)
PayloadsOfLen(n) ==
    IF n = 0 THEN {<<>>}
    ELSE {Append(p, b) : p \in PayloadsOfLen(n - 1), b \in PayloadBytes}
Payloads == UNION {PayloadsOfLen(n) : n \in 0 .. PayloadLen}

\* The payloads a tile server answers with: a tile, a corrupt one, an empty
\* one and gzip-compressed ones.
WebPayloads == {<<>>, <<1>>, <<0>>, <<31, 139, 101>>, <<31, 139, 100>>}

\* Result<_, _>: Ok with a decoded tile or with bytes, or Err with an error
Ok(bytes, tile) == [ok |-> TRUE, err |-> "", bytes |-> bytes, tile |-> tile]
Err(e) == [ok |-> FALSE, err |-> e, bytes |-> <<>>, tile |-> None]

\* GzDecoder::new(&bytes[..]).read_to_end(&mut decompressed): the bytes of the
\* stream behind the magic, decompressed, or None for an io::Error
Gunzip(bytes) ==
    IF /\ Len(bytes) > 2
       /\ SubSeq(bytes, 1, 2) = GzipMagic
       /\ \A k \in 3 .. Len(bytes) : bytes[k] \in {100, 101}
    THEN Some([k \in 1 .. Len(bytes) - 2 |-> bytes[k + 2] - 100])
    ELSE None

\* MvtTile::decode(bytes, false): the tile, here by the number of its
\* features, or None for a decoding error
MvtDecode(bytes) ==
    IF \A k \in 1 .. Len(bytes) : bytes[k] = 1
    THEN Some([features |-> Len(bytes)]) ELSE None

\* bytes.len() > 2 && bytes[0..2] == [0x1F, 0x8B], were the payload never
\* taken for compressed.
IsGzipNever(bytes) == FALSE

\* bytes.len() > 2 && bytes[0..2] == [0x1F, 0x8B]
IsGzip(bytes) == Len(bytes) > 2 /\ SubSeq(bytes, 1, 2) = GzipMagic

\* The tail of VectorTileLoader for PmtilesTileLoader::load, from the bytes of
\* the tile on: decompress them if they are compressed, then decode them.
DecodeArchiveTile(bytes) ==
    IF IsGzip(bytes) /\ Gunzip(bytes) = None THEN Err("Decoding")
    ELSE LET decompressed_bytes == IF IsGzip(bytes) THEN Unwrap(Gunzip(bytes)) ELSE bytes IN
         IF MvtDecode(decompressed_bytes) = None THEN Err("Decoding")
         ELSE Ok(<<>>, MvtDecode(decompressed_bytes))

\* The tail of VectorTileLoader for WebVtLoader::load:
\*   MvtTile::decode(bytes, false).map_err(|_| TileLoadError::Decoding)
DecodeWebTile(bytes) ==
    IF MvtDecode(bytes) = None THEN Err("Decoding") ELSE Ok(<<>>, MvtDecode(bytes))

\* The indices the loaders are asked for; the last one has no coordinate in
\* an archive.
LoaderIndices ==
    {[x |-> 0, y |-> 0, z |-> 0], [x |-> 1, y |-> 0, z |-> 1], [x |-> -1, y |-> 0, z |-> 1]}

\* What the archive reader answers to reader.get_tile(coord).await:
\* Ok(Some(bytes)), Ok(None) for a tile the archive does not have, or Err for
\* a failure of a read of the archive.
ReaderAnswers ==
    {[is |-> "err", bytes |-> <<>>], [is |-> "absent", bytes |-> <<>>]}
        \cup {[is |-> "tile", bytes |-> p] : p \in Payloads}

\* PmtilesTileLoader::get_tile as the answer of the reader arrives
PmtilesGetTile(index, answer) ==
    IF TileCoordNew(index) = None THEN Err("NotFound")
    ELSE IF answer.is = "err" THEN Err("NotFound")
    ELSE IF answer.is = "absent" THEN Err("NotFound")
    ELSE Ok(answer.bytes, None)

\* RasterTileLoader for PmtilesTileLoader::load; the platform decodes the
\* image or fails.
RasterLoad(index, answer, image_ok) ==
    LET bytes == PmtilesGetTile(index, answer) IN
    IF ~bytes.ok THEN bytes
    ELSE IF image_ok THEN Ok(bytes.bytes, None) ELSE Err("ImageDecode")

\* VectorTileLoader for PmtilesTileLoader::load
VectorLoad(index, answer) ==
    LET bytes == PmtilesGetTile(index, answer) IN
    IF ~bytes.ok THEN Err("Network") ELSE DecodeArchiveTile(bytes.bytes)

\* (self.url_source)(&index): the URL of the tile
url_source(index) == <<"tiles", index.z, index.x, index.y>>
Urls == {url_source(index) : index \in LoaderIndices}

\* What the platform answers to load_bytes_from_url(url).await: the bytes,
\* GalileoError::NotFound for a 404, or another error.
UrlAnswers ==
    {[is |-> "NotFound", bytes |-> <<>>], [is |-> "IO", bytes |-> <<>>]}
        \cup {[is |-> "bytes", bytes |-> p] : p \in WebPayloads}

\* The flat caches: for every URL the bytes stored under it, if any.
Caches == [Urls -> {None} \cup {Some(p) : p \in WebPayloads}]

\* No call of a PmtilesTileLoader yet.
NoArchiveCall ==
    [loader |-> "none", pc |-> "idle", index |-> [x |-> 0, y |-> 0, z |-> 0],
     answer |-> [is |-> "none", bytes |-> <<>>], raw |-> Err(""), result |-> Err("")]

\* No WebVtLoader yet, and no call of one.
NoLoader == [made |-> FALSE, has_cache |-> FALSE, offline_mode |-> FALSE]
NoCall ==
    [loader |-> "none", pc |-> "idle", index |-> [x |-> 0, y |-> 0, z |-> 0],
     url |-> <<>>, cached |-> None, stored_before |-> FALSE, net |-> 0,
     insert |-> "none", answer |-> [is |-> "none", bytes |-> <<>>],
     raw |-> Err(""), result |-> Err("")]

\* WebVtLoader::new(cache, url_source, offline_mode), over a flat cache with
\* what earlier runs left in it
NewLoader(has_cache, offline_mode, content) ==
    /\ ~wloader.made
    /\ wloader' = [made |-> TRUE, has_cache |-> has_cache, offline_mode |-> offline_mode]
    /\ cache' = content
    /\ UNCHANGED <<call, stored>>

\* cache.insert(url, &bytes), were nothing stored.
InsertedNothing(c, url, bytes) == c

\* cache.insert(url, &bytes) returning Ok(()): the cache holds the bytes
\* under the URL
Inserted(c, url, bytes) == [c EXCEPT ![url] = Some(bytes)]

\* self.cache.as_ref().and_then(|cache| cache.get(url))
CacheGet(url) == IF wloader.has_cache THEN cache[url] ELSE None

\* The cache lookup, were the cache never asked.
LookupSkipped(url) == None

\* The data load_raw finds in the cache.
Lookup(url) == CacheGet(url)

\* VectorTileLoader for WebVtLoader::load up to the await of load_raw: a cache
\* hit is decoded and returned, a miss in offline mode is DoesNotExist, any
\* other miss goes to the network.
WebLoad(index) ==
    LET url == url_source(index)
        data == Lookup(url)
        started == [NoCall EXCEPT !.loader = "web", !.index = index, !.url = url,
                                  !.cached = CacheGet(url),
                                  !.stored_before = url \in stored] IN
    /\ wloader.made
    /\ call.pc \in {"idle", "returned"}
    /\ call' =
          IF data # None
          THEN [started EXCEPT !.pc = "returned", !.raw = Ok(Unwrap(data), None),
                               !.result = DecodeWebTile(Unwrap(data))]
          ELSE IF wloader.offline_mode
          THEN [started EXCEPT !.pc = "returned", !.raw = Err("DoesNotExist"),
                               !.result = Err("DoesNotExist")]
          ELSE [started EXCEPT !.pc = "net", !.net = 1]
    /\ UNCHANGED <<wloader, cache, stored>>

\* What load_raw returns behind the insert, were a failed insert an error.
RawAfterInsertFatal(bytes, insert_failed) ==
    IF insert_failed THEN Err("Network") ELSE Ok(bytes, None)

\* What load_raw returns behind the insert: Err(error) => log::info!(..), and
\* Ok(bytes) either way
RawAfterInsert(bytes, insert_failed) == Ok(bytes, None)

\* load_bytes_from_url(url).await returns: an error is mapped and returned;
\* the bytes are inserted into the cache, if there is one, whether or not
\* the insert succeeds, and then decoded.
WebAnswer(answer, insert_ok) ==
    /\ call.pc = "net"
    /\ IF answer.is # "bytes"
       THEN /\ call' = [call EXCEPT
                          !.pc = "returned", !.answer = answer,
                          !.raw = Err(IF answer.is = "NotFound" THEN "DoesNotExist"
                                      ELSE "Network"),
                          !.result = Err(IF answer.is = "NotFound" THEN "DoesNotExist"
                                         ELSE "Network")]
            /\ UNCHANGED <<cache, stored>>
       ELSE /\ call' = [call EXCEPT
                          !.pc = "returned", !.answer = answer,
                          !.insert = IF ~wloader.has_cache THEN "none"
                                     ELSE IF insert_ok THEN "ok" ELSE "failed",
                          !.raw = RawAfterInsert(answer.bytes,
                                                 wloader.has_cache /\ ~insert_ok),
                          !.result =
                              IF RawAfterInsert(answer.bytes,
                                                wloader.has_cache /\ ~insert_ok).ok
                              THEN DecodeWebTile(answer.bytes)
                              ELSE RawAfterInsert(answer.bytes,
                                                  wloader.has_cache /\ ~insert_ok)]
            /\ cache' = IF wloader.has_cache /\ insert_ok
                        THEN Inserted(cache, call.url, answer.bytes)
                        ELSE cache
            /\ stored' = IF wloader.has_cache /\ insert_ok
                         THEN stored \cup {call.url} ELSE stored
    /\ UNCHANGED wloader

\* A load of a PmtilesTileLoader, raster or vector, up to the await of
\* reader.get_tile; an index without a coordinate returns at once.
ArchiveLoad(kind, index) ==
    /\ acall.pc \in {"idle", "returned"}
    /\ acall' =
          IF TileCoordNew(index) = None
          THEN [NoArchiveCall EXCEPT
                  !.loader = kind, !.index = index, !.pc = "returned",
                  !.raw = PmtilesGetTile(index, NoArchiveCall.answer),
                  !.result = IF kind = "raster"
                             THEN RasterLoad(index, NoArchiveCall.answer, TRUE)
                             ELSE VectorLoad(index, NoArchiveCall.answer)]
          ELSE [NoArchiveCall EXCEPT !.loader = kind, !.index = index, !.pc = "reader"]

\* The reader answers, and the load returns.
ArchiveAnswer(answer, image_ok) ==
    /\ acall.pc = "reader"
    /\ acall' = [acall EXCEPT
                   !.pc = "returned", !.answer = answer,
                   !.raw = PmtilesGetTile(acall.index, answer),
                   !.result = IF acall.loader = "raster"
                              THEN RasterLoad(acall.index, answer, image_ok)
                              ELSE VectorLoad(acall.index, answer)]

\* ---------------------------------------------------------------- RenderLoop
\* RenderCommand, with one frame rate and one size
RenderCommands ==
    {"Start", "Stop", "Pause", "Resume", "SetFps", "Resize", "RequestFrame"}

\* RenderLoop::new(config): the state is Stopped, the channel is empty and
\* the task is spawned. started and frame are history: whether a Start or a
\* Resume was processed, and what the last step of the task rendered a frame
\* for.
NewRenderLoop ==
    [state |-> "Stopped", commands |-> <<>>, task |-> "running", dropped |-> FALSE,
     started |-> FALSE, frame |-> "none", on |-> "none"]

\* start(), stop(), pause(), resume(), set_fps(fps), resize(size) and
\* request_frame(): send_command(command) appends to the unbounded channel;
\* the send fails once the task has dropped the receiver.
SendCommand(command) ==
    /\ ~rloop.dropped
    /\ rloop.task = "running"
    /\ Len(rloop.commands) < MaxCommands
    /\ rloop' = [rloop EXCEPT !.commands = Append(rloop.commands, command),
                              !.frame = "none", !.on = "none"]

\* Drop for RenderLoop: it sends Stop, and the sender is gone.
DropRenderLoop ==
    /\ ~rloop.dropped
    /\ rloop' = [rloop EXCEPT
                    !.commands = IF rloop.task = "running"
                                 THEN Append(rloop.commands, "Stop") ELSE rloop.commands,
                    !.dropped = TRUE, !.frame = "none", !.on = "none"]

\* if *state.lock() != RenderState::Stopped { Self::render_frame().await }
RendersOnRequest(state) == state # "Stopped"

\* if current_state == RenderState::Running { Self::render_frame().await }
RendersOnTick(state) == state = "Running"

\* The state after a command: Start and Resume give Running, Pause gives
\* Paused, Stop gives Stopped, the others leave it.
StateAfter(state, command) ==
    CASE command \in {"Start", "Resume"} -> "Running"
      [] command = "Pause" -> "Paused"
      [] command = "Stop" -> "Stopped"
      [] OTHER -> state

\* The branch command = command_receiver.recv() of the select! with
\* Some(command): the match on the command; Stop breaks out of the loop.
RecvCommand ==
    /\ rloop.task = "running"
    /\ rloop.commands # <<>>
    /\ LET command == Head(rloop.commands) IN
       rloop' = [rloop EXCEPT
                   !.commands = Tail(rloop.commands),
                   !.state = StateAfter(rloop.state, command),
                   !.task = IF command = "Stop" THEN "exited" ELSE "running",
                   !.started = rloop.started \/ command \in {"Start", "Resume"},
                   !.frame = IF command = "RequestFrame" /\ RendersOnRequest(rloop.state)
                             THEN "request" ELSE "none",
                   !.on = command]

\* The same branch with None: every sender is gone and the channel is empty.
RecvClosed ==
    /\ rloop.task = "running"
    /\ rloop.commands = <<>>
    /\ rloop.dropped
    /\ rloop' = [rloop EXCEPT !.task = "exited", !.frame = "none", !.on = "closed"]

\* The branch _ = interval_timer.tick() of the select!
TimerTick ==
    /\ rloop.task = "running"
    /\ rloop' = [rloop EXCEPT
                    !.frame = IF RendersOnTick(rloop.state) THEN "tick" ELSE "none",
                    !.on = "tick"]

\* ----------------------------------------------------------- specifications
Init ==
    /\ tree = {}
    /\ files = [s \in Spans |-> NoFile]
    /\ rd = [t \in Tasks |-> Idle]
    /\ hist = NoHist
    /\ marked = {}
    /\ gone = {}
    /\ ndel = 0
    /\ tiles = <<>>
    /\ fade_in_duration = DEFAULT_FADE_IN_DURATION
    /\ now = 0
    /\ pass = NoPass
    /\ steady = {}
    /\ lock = 0
    /\ updating = [c \in Callers |-> NotCalling]
    /\ committed = <<>>
    /\ cover = NoCover
    /\ mercator = NoMercator
    /\ prefetch = NoPrefetch
    /\ sem = NoSem
    /\ ttask = <<>>
    /\ acall = NoArchiveCall
    /\ wloader = NoLoader
    /\ cache = [u \in Urls |-> None]
    /\ call = NoCall
    /\ stored = {}
    /\ rloop = NewRenderLoop

Next ==
    /\ UNCHANGED <<tileVars, lockVars, schemaVars, prefetchVars, loaderVars, rloop>>
    /\ \/ \E t \in SeqTasks, r \in Requests :
             AllIdle /\ StartRead(t, r[1], r[2]) /\ Observe(t)
       \/ \E t \in SeqTasks : Finish(t) /\ Observe(t)
       \/ \E t \in SeqTasks : Lookup1(t) /\ Observe(t)
       \/ \E t \in SeqTasks : Lookup2(t) /\ Observe(t)
       \/ \E t \in SeqTasks : FetchGap(t) /\ Observe(t)
       \/ \E t \in SeqTasks : ReadFile(t) /\ Observe(t)
       \/ \E t \in SeqTasks : ReadFileMissing(t) /\ Observe(t)
       \/ \E t \in SeqTasks : RemoveStale(t) /\ Observe(t)
       \/ \E t \in SeqTasks : ExecStatus(t, PARTIAL_CONTENT) /\ Observe(t)
       \/ \E t \in SeqTasks :
             BodyArrives(t, SrcBytes(rd[t].fetch[1], rd[t].fetch[2])) /\ Observe(t)
       \/ \E t \in SeqTasks : CreateFile(t) /\ Observe(t)
       \/ \E t \in SeqTasks : WriteFile(t) /\ Observe(t)
       \/ \E t \in SeqTasks : Record(t) /\ Observe(t)
       \/ \E t \in SeqTasks : CopyFetched(t) /\ Observe(t)
       \/ \E t \in SeqTasks, mark \in BOOLEAN : Mark(t, mark) /\ Return(t)
       \/ \E s \in Spans :
             /\ AllIdle /\ Delete(s)
             /\ marked' = {} /\ gone' = gone \cup {s} /\ UNCHANGED <<hist, ndel>>

Spec == Init /\ [][Next]_vars

NextFaulty ==
    /\ UNCHANGED <<tileVars, lockVars, schemaVars, prefetchVars, loaderVars, rloop>>
    /\ \/ \E t \in SeqTasks, r \in Requests :
             AllIdle /\ StartRead(t, r[1], r[2]) /\ Observe(t)
       \/ \E t \in SeqTasks : Finish(t) /\ Observe(t)
       \/ \E t \in SeqTasks : Lookup1(t) /\ Observe(t)
       \/ \E t \in SeqTasks : Lookup2(t) /\ Observe(t)
       \/ \E t \in SeqTasks : FetchGap(t) /\ Observe(t)
       \/ \E t \in SeqTasks : ReadFile(t) /\ Observe(t)
       \/ \E t \in SeqTasks : ReadFileMissing(t) /\ Observe(t)
       \/ \E t \in SeqTasks : RemoveStale(t) /\ Observe(t)
       \/ \E t \in SeqTasks : ExecFail(t) /\ Observe(t)
       \/ \E t \in SeqTasks, s \in Statuses : ExecStatus(t, s) /\ Observe(t)
       \/ \E t \in SeqTasks : BodyFail(t) /\ Observe(t)
       \/ \E t \in SeqTasks : \E b \in Bodies(rd[t].fetch[1], rd[t].fetch[2]) :
             BodyArrives(t, b) /\ Observe(t)
       \/ \E t \in SeqTasks : CreateFile(t) /\ Observe(t)
       \/ \E t \in SeqTasks : CreateFileFail(t) /\ Observe(t)
       \/ \E t \in SeqTasks : WriteFile(t) /\ Observe(t)
       \/ \E t \in SeqTasks : Record(t) /\ Observe(t)
       \/ \E t \in SeqTasks : CopyFetched(t) /\ Observe(t)
       \/ \E t \in SeqTasks : Abort(t) /\ Observe(t)
       \/ \E t \in SeqTasks : Return(t) /\ UNCHANGED <<hist, marked, gone, ndel>>
       \/ \E s \in Spans :
             /\ AllIdle /\ Delete(s)
             /\ gone' = gone \cup {s} /\ UNCHANGED <<hist, marked, ndel>>

SpecFaulty == Init /\ [][NextFaulty]_vars

NextConc ==
    /\ UNCHANGED <<tileVars, lockVars, schemaVars, prefetchVars, loaderVars, rloop>>
    /\ \/ \E t \in Tasks, r \in ConcRequests :
             StartRead(t, r[1], r[2]) /\ UNCHANGED <<seqHist, ndel>>
       \/ \E t \in Tasks : Finish(t) /\ UNCHANGED <<seqHist, ndel>>
       \/ \E t \in Tasks : Lookup1(t) /\ UNCHANGED <<seqHist, ndel>>
       \/ \E t \in Tasks : Lookup2(t) /\ UNCHANGED <<seqHist, ndel>>
       \/ \E t \in Tasks : FetchGap(t) /\ UNCHANGED <<seqHist, ndel>>
       \/ \E t \in Tasks : ReadFile(t) /\ UNCHANGED <<seqHist, ndel>>
       \/ \E t \in Tasks : ReadFileMissing(t) /\ UNCHANGED <<seqHist, ndel>>
       \/ \E t \in Tasks : RemoveStale(t) /\ UNCHANGED <<seqHist, ndel>>
       \/ \E t \in Tasks : ExecStatus(t, PARTIAL_CONTENT) /\ UNCHANGED <<seqHist, ndel>>
       \/ \E t \in Tasks :
             /\ BodyArrives(t, SrcBytes(rd[t].fetch[1], rd[t].fetch[2]))
             /\ UNCHANGED <<seqHist, ndel>>
       \/ \E t \in Tasks : CreateFile(t) /\ UNCHANGED <<seqHist, ndel>>
       \/ \E t \in Tasks : WriteFile(t) /\ UNCHANGED <<seqHist, ndel>>
       \/ \E t \in Tasks : Record(t) /\ UNCHANGED <<seqHist, ndel>>
       \/ \E t \in Tasks : CopyFetched(t) /\ UNCHANGED <<seqHist, ndel>>
       \/ \E t \in Tasks : Return(t) /\ UNCHANGED <<seqHist, ndel>>
       \/ \E s \in Spans :
             ndel < MaxDeletes /\ Delete(s) /\ ndel' = ndel + 1 /\ UNCHANGED seqHist

SpecConc == Init /\ [][NextConc]_vars

\* The calls of Spec, one at a time, with a server that may answer 206 with
\* the bytes asked for or with fewer.
NextShort ==
    /\ UNCHANGED <<tileVars, lockVars, schemaVars, prefetchVars, loaderVars, rloop>>
    /\ \/ \E t \in SeqTasks, r \in Requests :
             AllIdle /\ StartRead(t, r[1], r[2]) /\ Observe(t)
       \/ \E t \in SeqTasks : Finish(t) /\ Observe(t)
       \/ \E t \in SeqTasks : Lookup1(t) /\ Observe(t)
       \/ \E t \in SeqTasks : Lookup2(t) /\ Observe(t)
       \/ \E t \in SeqTasks : FetchGap(t) /\ Observe(t)
       \/ \E t \in SeqTasks : ReadFile(t) /\ Observe(t)
       \/ \E t \in SeqTasks : ReadFileMissing(t) /\ Observe(t)
       \/ \E t \in SeqTasks : RemoveStale(t) /\ Observe(t)
       \/ \E t \in SeqTasks : ExecStatus(t, PARTIAL_CONTENT) /\ Observe(t)
       \/ \E t \in SeqTasks :
             \E b \in {SrcBytes(rd[t].fetch[1], rd[t].fetch[2])}
                        \cup ShortBodies(rd[t].fetch[1], rd[t].fetch[2]) :
                BodyArrives(t, b) /\ Observe(t)
       \/ \E t \in SeqTasks : CreateFile(t) /\ Observe(t)
       \/ \E t \in SeqTasks : WriteFile(t) /\ Observe(t)
       \/ \E t \in SeqTasks : Record(t) /\ Observe(t)
       \/ \E t \in SeqTasks : CopyFetched(t) /\ Observe(t)
       \/ \E t \in SeqTasks : Return(t) /\ UNCHANGED <<hist, marked, gone, ndel>>
       \/ \E s \in Spans :
             /\ AllIdle /\ Delete(s)
             /\ gone' = gone \cup {s} /\ UNCHANGED <<hist, marked, ndel>>

SpecShort == Init /\ [][NextShort]_vars

\* A step of the read call of task t once it is called: a turn of the loop, a
\* query of the index, a file operation, or the end of a network operation.
ReadStep(t) ==
    /\ UNCHANGED <<tileVars, lockVars, schemaVars, prefetchVars, loaderVars, rloop>>
    /\ UNCHANGED <<seqHist, ndel>>
    /\ \/ Finish(t) \/ Lookup1(t) \/ Lookup2(t) \/ FetchGap(t)
       \/ ReadFile(t) \/ ReadFileMissing(t) \/ RemoveStale(t)
       \/ ExecStatus(t, PARTIAL_CONTENT)
       \/ BodyArrives(t, SrcBytes(rd[t].fetch[1], rd[t].fetch[2]))
       \/ CreateFile(t) \/ WriteFile(t) \/ Record(t) \/ CopyFetched(t)

\* The concurrent calls when every call that can take a step takes one: the
\* executor polls every task that can run, and every network fetch terminates.
SpecConcFair == SpecConc /\ WF_vars(ReadStep(1)) /\ WF_vars(ReadStep(2))

\* The displayed tiles of one container as the view and the styles change:
\* calls of update_displayed_tiles for any indices and styles and calls of
\* set_fade_in_duration that switch the animation on and off, one after the
\* other at one instant.
NextTiles ==
    /\ UNCHANGED <<cacheVars, lockVars, schemaVars, prefetchVars, loaderVars, rloop>>
    /\ \/ \E needed \in NeededLists(WrappingIndices, MaxNeeded), style_id \in StyleIds :
             \E answers \in Answers(needed, style_id) :
                /\ Len(Updated(needed, style_id, answers)) <= MaxDisplayed
                /\ UpdateDisplayedTiles(needed, style_id, answers)
       \/ \E duration \in {1, DEFAULT_FADE_IN_DURATION} : set_fade_in_duration(duration)

SpecTiles == Init /\ [][NextTiles]_vars

\* The displayed tiles of one container as time passes: calls of
\* update_displayed_tiles for the tiles of one place and calls of
\* set_fade_in_duration, one after the other, while the clock advances.
NextFade ==
    /\ UNCHANGED <<cacheVars, lockVars, schemaVars, prefetchVars, loaderVars, rloop>>
    /\ \/ \E needed \in NeededLists(FadeIndices, MaxFadeNeeded), style_id \in FadeStyleIds :
             \E answers \in Answers(needed, style_id) :
                UpdateDisplayedTiles(needed, style_id, answers)
       \/ \E duration \in FadeDurations : set_fade_in_duration(duration)
       \/ \E d \in Ticks : Tick(d)

SpecFade == Init /\ [][NextFade]_vars

\* The displayed tiles of one container from its creation on, when the
\* needed_indices of a call may name an index twice and the style changes
\* between the calls, while the clock advances.
NextDup ==
    /\ UNCHANGED <<cacheVars, lockVars, schemaVars, prefetchVars, loaderVars, rloop>>
    /\ \/ \E needed \in NeededLists(DupIndices, MaxDupNeeded), style_id \in StyleIds :
             \E answers \in Answers(needed, style_id) :
                /\ Len(Updated(needed, style_id, answers)) <= MaxDisplayed
                /\ UpdateDisplayedTiles(needed, style_id, answers)
       \/ \E duration \in {1, 4} : set_fade_in_duration(duration)
       \/ \E d \in Ticks : Tick(d)

SpecDup == Init /\ [][NextDup]_vars

\* The call of update_displayed_tiles is made again with the needed indices
\* of the last call.
PassAgain ==
    /\ UNCHANGED <<cacheVars, lockVars, schemaVars, prefetchVars, loaderVars, rloop>>
    /\ \E style_id \in FadeStyleIds :
          \E answers \in Answers(pass.needed, style_id) :
             UpdateDisplayedTiles(pass.needed, style_id, answers)

\* The clock advances.
ClockAdvances ==
    /\ UNCHANGED <<cacheVars, lockVars, schemaVars, prefetchVars, loaderVars, rloop>>
    /\ \E d \in Ticks : Tick(d)

\* The same when the calls keep running as time advances: the view is
\* reconciled again and again, and the clock does not stop before its end.
SpecFadeFair == SpecFade /\ WF_vars(PassAgain) /\ WF_vars(ClockAdvances)

\* Two threads that call update_displayed_tiles on one container, a thread
\* that reads the tiles under the lock and calls of set_fade_in_duration
\* that switch the animation on and off, interleaved at every access to the
\* lock, the atomic duration, the provider and the displayed tiles.
NextLock ==
    /\ UNCHANGED <<cacheVars, pass, steady, schemaVars, prefetchVars, loaderVars, rloop>>
    /\ \/ \E c \in Callers, style_id \in FadeStyleIds :
             \E needed \in NeededLists(FadeIndices, MaxFadeNeeded) :
                Call(c, needed, style_id)
       \/ \E c \in Callers : Lock(c)
       \/ \E c \in Callers : Begin(c)
       \/ \E c \in Callers :
             /\ updating[c].needed # <<>>
             /\ \E answer \in get_tile(Head(updating[c].needed), updating[c].loc.style_id) :
                   Turn(c, answer)
       \/ \E c \in Callers : SweepAndUnlock(c)
       \/ ReaderLock
       \/ ReaderUnlock
       \/ \E duration \in {1, DEFAULT_FADE_IN_DURATION} : StoreFade(duration)

SpecLock == Init /\ [][NextLock]_vars

\* A call of tiles_for_bbox_and_res for any of the boxes, empty and inverted
\* ones included, the levels and the vertical directions of the schema.
NextCover ==
    /\ UNCHANGED <<cacheVars, tileVars, lockVars, mercator, prefetchVars, loaderVars, rloop>>
    /\ ~cover.called
    /\ \E y_direction \in VerticalDirections, bbox \in CoverBoxes :
          \E z \in DOMAIN CoverSchema(y_direction).lods \cup {2} :
             Cover(y_direction, bbox, z)

SpecCover == Init /\ [][NextCover]_vars

\* A call of tiles_for_bbox_and_res on the schema of examples/pmtiles.rs, for
\* its bounds and the boxes inside them, at a level of the schema.
NextMercator ==
    /\ UNCHANGED <<cacheVars, tileVars, lockVars, cover, prefetchVars, loaderVars, rloop>>
    /\ ~mercator.called
    /\ \E bbox \in MercatorBoxes, z \in DOMAIN MercatorSchema.lods :
          /\ ~FLt(bbox.x_max, bbox.x_min) /\ ~FLt(bbox.y_max, bbox.y_min)
          /\ CoverMercator(bbox, z)

SpecMercator == Init /\ [][NextMercator]_vars

\* A call of spawn_prefetch_for_url on the schema of examples/pmtiles.rs, the
\* task it spawns, the tile tasks of that task interleaved at every await,
\* and an abort of the returned handle at any moment.
NextPrefetch ==
    /\ UNCHANGED <<cacheVars, tileVars, lockVars, schemaVars, loaderVars, rloop>>
    /\ \/ \E config \in PrefetchConfigs, cached \in BOOLEAN : CallPrefetch(config, cached)
       \/ \E config \in PrefetchConfigs : CallPrefetchFails(config)
       \/ OpenFails
       \/ SpawnTask
       \/ RunPrefetch
       \/ AbortHandle
       \/ \E i \in TaskIds : Poll(i)
       \/ \E i \in TaskIds : Resume(i)
       \/ \E i \in TaskIds, outcome \in FetchOutcomes : FetchEnds(i, outcome)

SpecPrefetch == Init /\ [][NextPrefetch]_vars

\* A step of a tile task: a poll by the runtime or the end of its fetch.
TileTaskStep ==
    /\ UNCHANGED <<cacheVars, tileVars, lockVars, schemaVars, loaderVars, rloop>>
    /\ \E i \in TaskIds :
          Poll(i) \/ Resume(i) \/ \E outcome \in FetchOutcomes : FetchEnds(i, outcome)

\* The same when the runtime keeps polling the tasks that can run and every
\* fetch terminates: while a tile task can take a step, one of them does.
\* The runtime polls each task that can run, which is more than this asks.
SpecPrefetchFair == SpecPrefetch /\ WF_vars(TileTaskStep)

\* Loads of a PmtilesTileLoader, raster and vector, one after the other, for
\* every answer of the archive reader.
NextArchive ==
    /\ UNCHANGED <<cacheVars, tileVars, lockVars, schemaVars, prefetchVars, webVars, rloop>>
    /\ \/ \E kind \in {"raster", "vector"}, index \in LoaderIndices :
             ArchiveLoad(kind, index)
       \/ \E answer \in ReaderAnswers, image_ok \in BOOLEAN :
             ArchiveAnswer(answer, image_ok)

SpecArchive == Init /\ [][NextArchive]_vars

\* A WebVtLoader with or without a flat cache, online or offline, and its
\* loads one after the other, for every answer of the network and of the
\* insert into the cache.
NextWeb ==
    /\ UNCHANGED <<cacheVars, tileVars, lockVars, schemaVars, prefetchVars, acall, rloop>>
    /\ \/ \E has_cache \in BOOLEAN, offline_mode \in BOOLEAN, content \in Caches :
             NewLoader(has_cache, offline_mode, content)
       \/ \E index \in LoaderIndices : WebLoad(index)
       \/ \E answer \in UrlAnswers, insert_ok \in BOOLEAN : WebAnswer(answer, insert_ok)

SpecWeb == Init /\ [][NextWeb]_vars

\* A RenderLoop from its creation on: commands sent in any order, the task
\* taking either branch of its select!, and the drop of the RenderLoop.
NextRender ==
    /\ UNCHANGED <<cacheVars, tileVars, lockVars, schemaVars, prefetchVars, loaderVars>>
    /\ \/ \E command \in RenderCommands : SendCommand(command)
       \/ DropRenderLoop
       \/ RecvCommand
       \/ RecvClosed
       \/ TimerTick

SpecRender == Init /\ [][NextRender]_vars

\* ------------------------------------------------------------------ claims
\* The span file of e as a completed fetch of e leaves it.
FullFile(e) == [present |-> TRUE, data |-> SrcBytes(e[1], e[2])]

\* [a, a + n) and [b, b + m) share a byte.
Intersect(a, n, b, m) == n > 0 /\ m > 0 /\ a < b + m /\ b < a + n

\* C1: every read call of a sequence of non-concurrent calls, against a server
\* that answers each range request with the bytes asked for, ends by returning
\* Ok with exactly the source bytes [offset, offset + length), whatever spans
\* and deletions earlier calls left behind.
C1_ReadExact ==
    \A t \in SeqTasks :
        rd[t].pc \in Terminal =>
            /\ rd[t].pc = "done"
            /\ rd[t].result = "Ok"
            /\ rd[t].out = SrcBytes(rd[t].offset, rd[t].length)

\* A read of the whole resource has returned, served partly from the network
\* and partly from a span an earlier call left in the index.
C1_Witness ==
    \E t \in SeqTasks :
        /\ rd[t].pc = "done"
        /\ rd[t].length = SrcLen
        /\ hist.nfetch >= 1
        /\ \E e \in tree : e \notin hist.stored

\* C2: once read(offset, length) has returned Ok, a later non-concurrent read
\* of that range or of a range inside it sends no range request, as long as
\* no span file was deleted in between.
C2_NoRefetch ==
    \A t \in SeqTasks, m \in marked :
        (/\ rd[t].pc # "idle"
         /\ m[1] <= rd[t].offset
         /\ rd[t].offset + rd[t].length <= m[1] + m[2]) => hist.nfetch = 0

\* A read strictly inside an earlier successful read has returned.
C2_Witness ==
    \E t \in SeqTasks, m \in marked :
        /\ rd[t].pc = "done"
        /\ rd[t].length >= 1
        /\ m[1] < rd[t].offset
        /\ rd[t].offset + rd[t].length < m[1] + m[2]
        /\ Cardinality(tree) >= 2

\* C3: a read that meets an index entry whose span file was deleted returns Ok
\* with the source bytes; the stale entry is gone from the index, the needed
\* sub-range was fetched, stored in its file and recorded; and no entry with a
\* deleted file that the read range intersects is left unnoticed.
C3_StaleHealed ==
    \A t \in SeqTasks :
        /\ (rd[t].pc \in Terminal /\ hist.healed # {}) =>
              /\ rd[t].pc = "done"
              /\ rd[t].out = SrcBytes(rd[t].offset, rd[t].length)
              /\ \A h \in hist.healed :
                    /\ h[1] \notin tree \/ h[1] = h[2]
                    /\ h[2] \in tree
                    /\ h[2] \in hist.stored
                    /\ files[h[2]] = FullFile(h[2])
        /\ rd[t].pc \in Terminal =>
              \A g \in gone \cap tree :
                  ~Intersect(g[1], g[2], rd[t].offset, rd[t].length)

\* A read has returned after it met a stale entry and fetched only a part of
\* the span of that entry.
C3_Witness ==
    \E t \in SeqTasks :
        /\ rd[t].pc = "done"
        /\ \E h \in hist.healed : h[1] # h[2] /\ h[1] \notin tree

\* C4, as claimed: whatever status other than 206 the server answers with,
\* fetch_and_store fails with RangeRequestsUnsupported.
C4_AnyOtherStatus ==
    \A t \in SeqTasks :
        rd[t].status \notin {0, PARTIAL_CONTENT} =>
            rd[t].pc = "failed" /\ rd[t].result = "RangeRequestsUnsupported"

\* C4, amended: a status other than 206 makes fetch_and_store fail: with the
\* HTTP status error of error_for_status when the status is 4xx or 5xx, with
\* RangeRequestsUnsupported for every other status (200 among them).
C4_StatusErrors ==
    \A t \in SeqTasks :
        rd[t].status \notin {0, PARTIAL_CONTENT} =>
            /\ rd[t].pc = "failed"
            /\ rd[t].status \in 400 .. 599 => rd[t].result = "Reqwest"
            /\ rd[t].status \notin 400 .. 599 =>
                  rd[t].result = "RangeRequestsUnsupported"

\* The server has answered a range request with 200.
C4_Witness ==
    \E t \in SeqTasks : rd[t].status = 200 /\ rd[t].pc = "failed"

\* C5: a 206 response whose body is longer than the requested length makes
\* fetch_and_store fail with ResponseBodyTooLong; no span file exists and no
\* index entry is recorded for that (offset, length).
C5_BodyTooLong ==
    \A t \in SeqTasks :
        Len(rd[t].body) > rd[t].fetch[2] =>
            /\ rd[t].pc = "failed"
            /\ rd[t].result = "ResponseBodyTooLong"
            /\ rd[t].fetch \notin tree
            /\ rd[t].fetch \notin hist.stored
            /\ files[rd[t].fetch] = NoFile

\* A too long body has arrived in a call that had stored a span before.
C5_Witness ==
    \E t \in SeqTasks :
        /\ Len(rd[t].body) > rd[t].fetch[2]
        /\ rd[t].pc = "failed"
        /\ hist.stored # {}

\* C6: a fetch that fails inside read makes read return the error: a non-206
\* status or a too long body ends the call in failure; a failed call returns
\* an error, the index holds no entry at the offset of the failed fetch, and
\* every span the call recorded before is in the index with its file.
C6_FetchFailure ==
    \A t \in SeqTasks :
        /\ (\/ rd[t].status \notin {0, PARTIAL_CONTENT}
            \/ Len(rd[t].body) > rd[t].fetch[2]) => rd[t].pc = "failed"
        /\ rd[t].pc = "failed" =>
              /\ rd[t].result \in {"Reqwest", "RangeRequestsUnsupported",
                                   "ResponseBodyTooLong", "Io"}
              /\ \A e \in tree : e[1] # rd[t].fetch[1]
              /\ \A e \in hist.stored : e \in tree /\ files[e] = FullFile(e)

\* A call has failed with a transport error after it had recorded a span.
C6_Witness ==
    \E t \in SeqTasks :
        /\ rd[t].pc = "failed"
        /\ rd[t].result = "Reqwest"
        /\ rd[t].status = 0
        /\ hist.stored # {}

\* C7: write-then-record: in every state, also after a call was dropped at a
\* suspension point or failed, every index entry has its completely written
\* span file, unless that file was deleted out-of-band since.
C7_WriteThenRecord ==
    \A e \in tree : e \notin gone => files[e] = FullFile(e)

\* A call was dropped while it awaited the body of a response, after it had
\* recorded a span.
C7_Witness ==
    \E t \in SeqTasks :
        /\ rd[t].pc = "aborted"
        /\ rd[t].status = PARTIAL_CONTENT
        /\ hist.stored # {}

\* C8: under every interleaving of two read calls, and of deletions, a read
\* that returns Ok returns exactly the source bytes of its range.
C8_ConcurrentExact ==
    \A t \in Tasks :
        rd[t].pc = "done" =>
            /\ rd[t].result = "Ok"
            /\ rd[t].out = SrcBytes(rd[t].offset, rd[t].length)

\* A read of more than one byte has returned while the index holds two
\* overlapping spans that racing fetches recorded.
C8_Witness ==
    \E t \in Tasks :
        /\ rd[t].pc = "done"
        /\ rd[t].length >= 2
        /\ \E e, f \in tree : e[1] < f[1] /\ f[1] < e[1] + e[2]

\* C9, as claimed: a reader that is about to read the file of an indexed span
\* finds in it the complete bytes of the span.
C9_AppendOnce ==
    \A t \in Tasks :
        (/\ rd[t].pc = "have"
         /\ rd[t].found[1] <= rd[t].cursor
         /\ rd[t].found \in tree
         /\ files[rd[t].found].present) =>
            files[rd[t].found].data = SrcBytes(rd[t].found[1], rd[t].found[2])

\* C10, as claimed: no step removes an index entry whose span file exists, or
\* replaces it by an entry of another length.
C10_LiveEntriesKept ==
    [][\A e \in tree : files[e].present => e \in tree']_vars

\* C11: from an empty index, whatever reads have run one after the other and
\* whatever span files were deleted between them, no two entries of the index
\* overlap.
C11_NonOverlapping ==
    \A e, f \in tree :
        e # f => ~Intersect(e[1], e[2], f[1], f[2])

\* A read has filled the gap in front of an entry of the index after the file
\* of a span was deleted: the index holds the fetched gap and the entry that
\* follows it.
C11_Witness ==
    \E t \in SeqTasks :
        /\ rd[t].pc = "done"
        /\ gone # {}
        /\ \E e \in hist.stored, f \in tree :
              e \in tree /\ e[1] + e[2] = f[1] /\ f[1] < rd[t].offset + rd[t].length

\* ----------------------------------------------- claims: the displayed tiles
\* The step is a call of update_displayed_tiles.
IsPass == pass'.calls # pass.calls

\* The index is one of the needed indices of the call of the step.
IsNeeded(index) == \E k \in 1 .. Len(pass'.needed) : pass'.needed[k] = index

\* The displayed tile is one the call of the step needs under its style.
NeededTile(d) == IsNeeded(d.index) /\ d.style_id = pass'.style_id

\* Both indices have a bounding box and the two boxes intersect.
BoxesMeet(a, b) ==
    /\ tile_bbox(TileSchema, a) # None
    /\ tile_bbox(TileSchema, b) # None
    /\ intersects(Unwrap(tile_bbox(TileSchema, a)), Unwrap(tile_bbox(TileSchema, b)))

\* The displayed tile d is displayed after the step.
Kept(d) == \E m \in 1 .. Len(tiles') : tiles'[m] = d

\* Some tile with this index and style is displayed before, after the step.
ShownBefore(index, style_id) ==
    \E i \in 1 .. Len(tiles) : tiles[i].index = index /\ tiles[i].style_id = style_id
ShownAfter(index, style_id) ==
    \E m \in 1 .. Len(tiles') : tiles'[m].index = index /\ tiles'[m].style_id = style_id

\* The opacity is below 0.999.
BelowOpaque(op) == op[1] * 1000 < 999 * op[2]

\* min(t / D, 1.0) for an elapsed time t in microseconds and a fade-in
\* duration of fade milliseconds.
Ramp(t, fade) == IF t >= fade * 1000 THEN OpacityOne ELSE <<t, fade * 1000>>

C14_OpacityNeverDecreases ==
    [][IsPass =>
        \A i \in 1 .. Len(tiles), m \in 1 .. Len(tiles') :
            (/\ NeededTile(tiles[i])
             /\ tiles'[m].index = tiles[i].index
             /\ tiles'[m].style_id = tiles[i].style_id) =>
                OpLe(tiles[i].opacity, tiles'[m].opacity)]_vars

\* C15, as claimed: a call returns true exactly when it admitted a tile or
\* changed the opacity of a tile that was displayed.
C15_RedrawIffChange ==
    [][IsPass =>
        (pass'.ret <=>
            \/ pass'.admitted # {}
            \/ \E i \in 1 .. Len(tiles), m \in 1 .. Len(tiles') :
                  /\ tiles'[m].index = tiles[i].index
                  /\ tiles'[m].style_id = tiles[i].style_id
                  /\ ~OpEq(tiles'[m].opacity, tiles[i].opacity))]_vars

\* C15, amended: a call returns true exactly when it admitted a tile or found
\* a needed tile displayed under the style with an opacity below 0.999,
\* whether or not the opacity of that tile changed; it returns false when the
\* provider had no bundle for the indices it was asked for and every needed
\* tile that was displayed was opaque.
C15_RedrawIffAdmittedOrFading ==
    [][IsPass =>
        /\ pass'.ret <=>
              \/ pass'.admitted # {}
              \/ \E i \in 1 .. Len(tiles) :
                    /\ NeededTile(tiles[i])
                    /\ i = FindDisplayed(tiles, tiles[i].index, tiles[i].style_id)
                    /\ BelowOpaque(tiles[i].opacity)
        /\ (\E i \in 1 .. Len(tiles), m \in 1 .. Len(tiles') :
               /\ tiles'[m].index = tiles[i].index
               /\ tiles'[m].style_id = tiles[i].style_id
               /\ ~OpEq(tiles'[m].opacity, tiles[i].opacity)) => pass'.ret]_vars

\* A call has returned true for a needed tile that is not opaque and whose
\* opacity it left as it was: the tile was admitted at this very instant.
C15_Witness ==
    /\ pass.calls = 0
    /\ pass.needed # <<>>
    /\ pass.ret
    /\ pass.admitted = {}
    /\ \E m \in 1 .. Len(tiles) :
          /\ tiles[m].index \in pass.fading
          /\ tiles[m].style_id = pass.style_id
          /\ tiles[m].displayed_at = pass.now
          /\ tiles[m].opacity = OpacityZero

\* C16: a tile admitted by a call has opacity 0 if the fade-in duration is
\* more than 1 ms and opacity 1 if it is 1 ms or less; and with a duration
\* of 1 ms or less a needed tile that was displayed and not opaque has
\* opacity 1 after the call.
C16_AdmittedOpacity ==
    [][IsPass =>
        \A m \in 1 .. Len(tiles') :
            LET d == tiles'[m] IN
            /\ (d.index \in pass'.admitted /\ d.style_id = pass'.style_id) =>
                  /\ d.displayed_at = now
                  /\ fade_in_duration > 1 => d.opacity = OpacityZero
                  /\ fade_in_duration <= 1 => d.opacity = OpacityOne
            /\ (/\ fade_in_duration <= 1
                /\ d.index \in pass'.fading
                /\ d.style_id = pass'.style_id) => d.opacity = OpacityOne]_vars

\* With a duration of 1 ms a call has found the needed tile displayed and
\* not opaque, at the instant at which it was admitted with opacity 0 under a
\* longer duration, and has left it with opacity 1.
C16_Witness ==
    /\ pass.fade_in_time = 1
    /\ pass.fading # {}
    /\ \E m \in 1 .. Len(tiles) :
          /\ tiles[m].index \in pass.fading
          /\ tiles[m].style_id = pass.style_id
          /\ tiles[m].displayed_at = pass.now
          /\ tiles[m].opacity = OpacityOne

\* C17: an index the provider returned no bundle for in a call gets no
\* displayed tile and is in to_substitute, and the call returns; after the
\* call a needed index has a displayed tile under the style exactly when it
\* had one before or the provider returned a bundle for it.
C17_MissIsSubstituted ==
    [][IsPass =>
        /\ \A x \in pass'.missing :
              /\ x \notin pass'.admitted => ~ShownAfter(x, pass'.style_id)
              /\ \E k \in 1 .. Len(pass'.to_substitute) : pass'.to_substitute[k] = x
        /\ \A k \in 1 .. Len(pass'.needed) :
              ShownAfter(pass'.needed[k], pass'.style_id) <=>
                 \/ ShownBefore(pass'.needed[k], pass'.style_id)
                 \/ pass'.needed[k] \in pass'.admitted
        /\ pass'.ret \in BOOLEAN]_vars

\* A call has returned in which the provider had no bundle for the needed
\* index, while a tile of another index stays displayed in its place.
C17_Witness ==
    /\ pass.calls = 1
    /\ pass.missing # {}
    /\ pass.admitted = {}
    /\ ~pass.ret
    /\ tiles # <<>>
    /\ \A m \in 1 .. Len(tiles) : tiles[m].index \notin pass.missing

\* ------------------------------------------------ claims: the lock of tiles
\* The caller holds the displayed tiles between its lock and its return.
InPass(c) == updating[c].pc \in {"init", "loop"}

\* C18: concurrent calls of update_displayed_tiles are serialized. Each call
\* takes the displayed tiles as the last call that returned left them and
\* leaves them as the call alone would, run from there with the answers of the
\* provider and the durations it read; and nobody who holds the lock of tiles
\* sees the tiles of a call that has not returned.
C18_Serialized ==
    /\ [](/\ \A c \in Callers : InPass(c) => lock = c
          /\ (lock = 0 \/ lock = Reader) => tiles = committed)
    /\ [][\A c \in Callers :
             (InPass(c) /\ ~InPass(c)') =>
                LET u == updating[c]
                    r == Reconcile(u.start, PassStart(u.loc.style_id, u.loc.now,
                                                      u.loc.fade_in_time),
                                   u.all, u.answers, u.anims) IN
                /\ u.start = committed
                /\ tiles' = Sweep(r.displayed, r.loc)
                /\ u.loc.requires_redraw = r.loc.requires_redraw]_vars

\* A call waits for the lock while the other call has changed the opacity of
\* a displayed tile in place and has not yet swept.
C18_Witness ==
    \E c, e \in Callers :
        /\ updating[c].pc = "lock"
        /\ updating[e].pc = "loop"
        /\ updating[e].needed = <<>>
        /\ tiles # updating[e].start

\* -------------------------------------- claims: tiles_for_bbox_and_res
\* The rectangle of a returned tile index.
CoverTileBox(idx) ==
    Unwrap(tile_bbox_at(CoverSchema(cover.y_direction), idx.x, idx.y, idx.z))

\* The point lies in the closed rectangle.
InRect(px, py, r) ==
    r.x_min <= px /\ px <= r.x_max /\ r.y_min <= py /\ py <= r.y_max

\* The rectangles share more than points of their edges.
Overlap(a, b) ==
    /\ a.x_min < b.x_max /\ b.x_min < a.x_max
    /\ a.y_min < b.y_max /\ b.y_min < a.y_max

\* C19, as claimed: every point of the box lies in the rectangle of a tile
\* that tiles_for_bbox_and_res returns for it, for every level and for both
\* vertical directions, on either side of the origin.
C19_BoxCovered ==
    cover.called =>
        \A px \in CoverXs, py \in CoverYs :
            InRect(px, py, cover.bbox) =>
                \E idx \in cover.out : InRect(px, py, CoverTileBox(idx))

\* C20: the rectangle of every tile that tiles_for_bbox_and_res returns
\* intersects the box; and if the box has a width and a height, the two share
\* more than an edge: a tile that only touches the box is not returned.
C20_TilesMeetBox ==
    cover.called =>
        \A idx \in cover.out :
            /\ intersects(CoverTileBox(idx), cover.bbox)
            /\ (cover.bbox.x_min < cover.bbox.x_max /\ cover.bbox.y_min < cover.bbox.y_max)
                  => Overlap(CoverTileBox(idx), cover.bbox)

\* Tiles were returned for a box whose right and lower edges lie on tile
\* boundaries and which reaches over the origin of the schema.
C20_Witness ==
    /\ cover.called
    /\ cover.y_direction = "TopToBottom"
    /\ cover.z = 1
    /\ cover.bbox = [x_min |-> -3000, x_max |-> 1000, y_min |-> -1000, y_max |-> 3000]
    /\ Cardinality(cover.out) = 4

\* C21: on the 1024 x 1024 WebMercator schema, the tiles that cover the full
\* bounds are exactly the tile (0, 0, 0) at level 0 and exactly the four
\* tiles with x and y in {0, 1} at level 1.
C21_FullBounds ==
    mercator.called /\ mercator.bbox = MercatorSchema.bounds =>
        mercator.out = {[x |-> x, y |-> y, z |-> mercator.z] :
                           x \in 0 .. mercator.z, y \in 0 .. mercator.z}

\* The full bounds were covered at level 1, with four tiles.
C21_Witness ==
    /\ mercator.called /\ mercator.bbox = MercatorSchema.bounds /\ mercator.z = 1
    /\ Cardinality(mercator.out) = 4
    /\ FRem(FSub(mercator.bbox.x_max, MercatorSchema.origin_x),
            FMulInt(HalfTopResolution, 1024)) # FZero

\* The box has no area, or its minimum edge lies beyond its maximum edge.
EmptyOrInverted(bbox) == bbox.x_min >= bbox.x_max \/ bbox.y_min >= bbox.y_max

\* C22, as claimed: for an empty (zero-area) or inverted bounding box
\* tiles_for_bbox_and_res returns no tile index.
C22_EmptyBoxNoTiles ==
    cover.called /\ EmptyOrInverted(cover.bbox) => cover.out = {}

\* The tile tasks whose fetch is in flight, and those that hold a permit.
InFlight == {i \in DOMAIN ttask : ttask[i].at = "fetching"}
Holders == {i \in DOMAIN ttask : ttask[i].at \in {"granted", "fetching"}}

\* The tile tasks that have ended.
Ended == {i \in DOMAIN ttask : ttask[i].at \in {"ok", "err", "skipped"}}

\* max(1, config.concurrency)
PoolSize == IF prefetch.config.concurrency >= 1 THEN prefetch.config.concurrency ELSE 1

\* C23: during a prefetch at most max(1, config.concurrency) tile fetches are
\* in flight; every task whose fetch is in flight holds one permit of the
\* pool, and a task that has ended, its fetch done, failed or skipped, holds
\* none: the free permits and the held ones always add up to the pool.
C23_BoundedInFlight ==
    /\ Cardinality(InFlight) <= PoolSize
    /\ prefetch.task = "done" =>
          /\ sem.permits >= 0
          /\ sem.permits + Cardinality(Holders) = PoolSize
          /\ sem.waiters # <<>> => sem.permits = 0

\* The pool of two permits is used up by two fetches in flight while a task
\* waits, after a fetch failed and its permit went to another task.
C23_Witness ==
    /\ prefetch.config.concurrency = 2
    /\ Cardinality(InFlight) = 2
    /\ sem.waiters # <<>>
    /\ \E i \in Ended : ttask[i].at = "err"

\* C24, as claimed: once the returned handle is aborted, no further tile
\* fetch is started.
C24_AbortStopsFetches ==
    [][prefetch.aborted =>
          \A i \in DOMAIN ttask' :
              ttask'[i].at = "fetching" => i \in DOMAIN ttask /\ ttask[i].at = "fetching"]_vars

\* C25, as claimed: the caller of spawn_prefetch_for_url never waits for a
\* network request of the prefetch, the reads of the header and the root
\* directory included.
C25_CallerNeverWaits ==
    ~(prefetch.caller = "opening" /\ prefetch.header = "requested")

\* C26: a failing tile fetch changes nothing but its own task and the pool,
\* and nothing of the tile tasks reaches the caller; and once prefetch_tiles
\* has spawned them, every tile task ends, whatever config.concurrency is.
C26_BestEffort ==
    /\ [][ttask' # ttask => prefetch' = prefetch \/ prefetch.task = "spawned"]_vars
    /\ [][\A i \in DOMAIN ttask :
            ttask[i].at = "fetching" /\ ttask'[i].at = "err" =>
                \A j \in DOMAIN ttask \ {i} :
                    ttask'[j].at = ttask[j].at
                        \/ (ttask[j].at = "waiting" /\ ttask'[j].at = "granted")]_vars
    /\ (prefetch.task = "done" ~> Ended = DOMAIN ttask)

\* With config.concurrency = 0 four tile tasks have ended, one of them after
\* a failed fetch.
C26_Witness ==
    /\ prefetch.config.concurrency = 0
    /\ Cardinality(DOMAIN ttask) = 4
    /\ Ended = DOMAIN ttask
    /\ \E i \in Ended : ttask[i].at = "err"
    /\ \E i \in Ended : ttask[i].at = "ok"

\* The errors that report that a tile does not exist.
Absence == {"NotFound", "DoesNotExist"}

\* C27, as claimed: a load of a PmtilesTileLoader, raster or vector, reports
\* a tile that the archive does not have as NotFound or DoesNotExist, and a
\* failed read of the archive as an error that is neither.
C27_AbsenceIsNotNetwork ==
    acall.pc = "returned" /\ TileCoordNew(acall.index) # None =>
        /\ acall.answer.is = "absent" => ~acall.result.ok /\ acall.result.err \in Absence
        /\ acall.answer.is = "err" => ~acall.result.ok /\ acall.result.err \notin Absence

\* C28: WebVtLoader asks the network only after a miss of the flat cache and
\* when not offline; a hit returns the cached bytes without the network in
\* either mode; offline, a miss returns DoesNotExist without the network and
\* without an insert, and the cache is left as it is.
C28_NetworkOnlyOnOnlineMiss ==
    /\ [](call.loader = "web" =>
            /\ call.net > 0 => call.cached = None /\ ~wloader.offline_mode
            /\ call.cached # None =>
                  /\ call.pc = "returned" /\ call.net = 0
                  /\ call.raw = Ok(Unwrap(call.cached), None)
            /\ call.cached = None /\ wloader.offline_mode =>
                  /\ call.pc = "returned" /\ call.net = 0 /\ call.insert = "none"
                  /\ call.raw = Err("DoesNotExist") /\ call.result = Err("DoesNotExist"))
    /\ [][wloader.offline_mode => cache' = cache]_vars

\* Offline, a load missed the cache and returned DoesNotExist while another
\* URL is cached.
C28_Witness ==
    /\ wloader.made /\ wloader.has_cache /\ wloader.offline_mode
    /\ call.pc = "returned" /\ call.cached = None /\ call.result = Err("DoesNotExist")
    /\ \E u \in Urls : cache[u] # None

\* C29: when the network answers with bytes, load_raw returns them, also when
\* the insert into the cache fails; after an insert that succeeded the cache
\* holds those bytes under the URL of the tile, and a later load of an index
\* whose bytes were inserted is a cache hit.
C29_CacheWriteNotFatal ==
    call.loader = "web" /\ call.pc = "returned" =>
        /\ call.answer.is = "bytes" => call.raw = Ok(call.answer.bytes, None)
        /\ call.insert = "ok" => cache[call.url] = Some(call.answer.bytes)
        /\ call.stored_before =>
              /\ call.cached # None /\ call.net = 0
              /\ call.raw = Ok(Unwrap(call.cached), None)

\* A load returned the bytes of the network although the insert failed, and
\* an earlier load had its bytes inserted and is cached.
C29_Witness ==
    /\ call.pc = "returned" /\ call.insert = "failed"
    /\ call.raw = Ok(call.answer.bytes, None)
    /\ \E u \in stored : u # call.url /\ cache[u] # None

\* What decoding the payload gives when a payload that starts with the gzip
\* magic is decompressed first.
DecodedAfterGunzip(payload) ==
    LET decode(bytes) == IF MvtDecode(bytes) = None THEN Err("Decoding")
                         ELSE Ok(<<>>, MvtDecode(bytes)) IN
    IF Len(payload) >= 2 /\ SubSeq(payload, 1, 2) = GzipMagic
    THEN IF Gunzip(payload) = None THEN Err("Decoding")
         ELSE decode(Unwrap(Gunzip(payload)))
    ELSE decode(payload)

\* The vector load of a PmtilesTileLoader decompresses a payload that starts
\* with the gzip magic before it decodes it.
ArchiveDecompresses ==
    acall.loader = "vector" /\ acall.pc = "returned" /\ acall.raw.ok =>
        acall.result = DecodedAfterGunzip(acall.raw.bytes)

\* C30, as claimed: every vector tile loader, PmtilesTileLoader and
\* WebVtLoader, decompresses a payload that starts with 0x1F, 0x8B before it
\* decodes it and decodes any other payload as it is; a payload that fails
\* either step gives the Decoding error.
C30_GzipDecompressed ==
    /\ ArchiveDecompresses
    /\ call.loader = "web" /\ call.pc = "returned" /\ call.raw.ok =>
          call.result = DecodedAfterGunzip(call.raw.bytes)

\* C31, as claimed: a RenderLoop renders no frame before a Start or a Resume
\* was processed; a tick renders only while the state is Running, a
\* RequestFrame renders nothing while the state is Stopped, and Pause keeps
\* the task alive.
C31_NoFrameBeforeStart ==
    /\ rloop.frame # "none" => rloop.started
    /\ rloop.frame = "tick" => rloop.state = "Running"
    /\ rloop.frame = "request" => rloop.state # "Stopped"
    /\ rloop.on = "Pause" => rloop.task = "running" /\ rloop.state = "Paused"

\* The positions of out that differ between two values of out.
Rewritten(out, out2) == {i \in 1 .. Len(out) : out[i] # out2[i]}

\* The step of task t ends a piece of its call: a cached file was read, or the
\* fetched bytes were copied.
PieceEnds(t) == rd[t].pc \in {"have", "copy"} /\ rd'[t].pc = "loop"

\* C32: within one read call the cursor only moves forward. A fetch is issued
\* at the cursor and stays inside the request; every piece starts at the
\* cursor, which is where the previous one ended, writes exactly the bytes
\* from there to the new cursor, which no piece wrote before, and moves the
\* cursor forward; the bytes written so far are exactly those before the
\* cursor; the call returns with the cursor at offset + length.
C32_PiecesPartition ==
    /\ [](\A t \in SeqTasks :
            rd[t].pc # "idle" =>
                /\ rd[t].offset <= rd[t].cursor
                /\ rd[t].cursor <= rd[t].offset + rd[t].length
                /\ \A i \in 1 .. Len(rd[t].out) :
                       rd[t].out[i] # 0 <=> i <= rd[t].cursor - rd[t].offset
                /\ rd[t].pc \in AwaitPoints =>
                       /\ rd[t].fetch[1] = rd[t].cursor
                       /\ rd[t].fetch[2] >= 1
                       /\ rd[t].fetch[1] + rd[t].fetch[2] <= rd[t].offset + rd[t].length
                /\ rd[t].pc = "done" => rd[t].cursor = rd[t].offset + rd[t].length)
    /\ [][\A t \in SeqTasks :
            (rd[t].pc # "idle" /\ rd'[t].pc # "idle") =>
                /\ rd'[t].cursor >= rd[t].cursor
                /\ ~PieceEnds(t) => rd'[t].cursor = rd[t].cursor /\ rd'[t].out = rd[t].out
                /\ PieceEnds(t) =>
                       /\ rd'[t].cursor > rd[t].cursor
                       /\ Rewritten(rd[t].out, rd'[t].out) =
                             (rd[t].cursor - rd[t].offset + 1) ..
                             (rd'[t].cursor - rd[t].offset)]_vars

\* A read of the whole resource has returned after three pieces: it fetched
\* the gap in front of a cached span, read the span, and fetched the rest.
C32_Witness ==
    \E t \in SeqTasks :
        /\ rd[t].pc = "done"
        /\ rd[t].length = SrcLen
        /\ hist.nfetch = 2
        /\ \E e \in tree : e \notin hist.stored /\ e[1] > 0 /\ e[1] + e[2] < SrcLen

\* C33: every read call terminates when every network fetch does, whatever
\* the other call and the deletions leave in the index: a call that runs
\* comes to its end; the lookup never hands the loop a span of no bytes, or
\* one that ends at or before the cursor; every fetch asks for at least one
\* byte; and every piece moves the cursor forward by at least one byte.
C33_ReadTerminates ==
    /\ \A t \in Tasks : (rd[t].pc # "idle") ~> (rd[t].pc \in Terminal)
    /\ [](\A t \in Tasks :
            /\ rd[t].pc = "have" =>
                   /\ rd[t].found[2] >= 1
                   /\ rd[t].found[1] + rd[t].found[2] > rd[t].cursor
            /\ rd[t].pc \in AwaitPoints => rd[t].fetch[2] >= 1)
    /\ [][\A t \in Tasks :
            (rd[t].pc \in {"have", "copy"} /\ rd'[t].pc = "loop") =>
                rd'[t].cursor >= rd[t].cursor + 1]_vars

\* Both calls have returned Ok after more than one turn of the loop, one of
\* them after it found a stale entry, and the index holds overlapping spans.
C33_Witness ==
    /\ \A t \in Tasks : rd[t].pc = "done" /\ rd[t].length = ConcLen
    /\ ndel = 1
    /\ \E e, f \in tree : e[1] < f[1] /\ f[1] < e[1] + e[2]

\* C34, as claimed: every span in the index whose file was not deleted
\* out-of-band has a file of exactly as many bytes as the span is long, also
\* when a 206 answer carried fewer bytes than were asked for; and a read that
\* is served from the file of an indexed span finds in it the bytes it slices.
C34_RecordedSpanBacked ==
    /\ \A e \in tree :
          e \notin gone => files[e].present /\ Len(files[e].data) = e[2]
    /\ \A t \in SeqTasks :
          (/\ rd[t].pc = "have"
           /\ rd[t].found[1] <= rd[t].cursor
           /\ files[rd[t].found].present) =>
              rd[t].cursor - rd[t].found[1] + Take(rd[t]) <= Len(files[rd[t].found].data)

\* The displayed tile was needed in the last call, and the clock runs on
\* until the ramp of the tile under the present fade-in duration has reached
\* 0.999.
StaysNeeded(d) ==
    /\ \E k \in 1 .. Len(pass.needed) : pass.needed[k] = d.index
    /\ \E t \in Ticks : d.displayed_at + fade_in_duration * 999 <= MaxTicks * t

\* Such a tile is displayed with an opacity that is not 1.
NeededNotOne ==
    \E m \in 1 .. Len(tiles) :
        StaysNeeded(tiles[m]) /\ ~OpEq(tiles[m].opacity, OpacityOne)

\* Such a tile is displayed with an opacity below 0.999.
NeededNotOpaque ==
    \E m \in 1 .. Len(tiles) :
        StaysNeeded(tiles[m]) /\ BelowOpaque(tiles[m].opacity)

\* A call leaves the opacity of every tile that was opaque and is still
\* displayed as it was.
OpaqueIsKept ==
    \A i \in 1 .. Len(tiles), m \in 1 .. Len(tiles') :
        (/\ tiles'[m].index = tiles[i].index
         /\ tiles'[m].style_id = tiles[i].style_id
         /\ tiles'[m].displayed_at = tiles[i].displayed_at
         /\ ~BelowOpaque(tiles[i].opacity)) => tiles'[m].opacity = tiles[i].opacity

\* A call with the needed indices of the call before, all of them displayed
\* and opaque, returns false.
SettledReturnsFalse ==
    (/\ pass'.needed = pass.needed
     /\ pass'.style_id = pass.style_id
     /\ \A k \in 1 .. Len(pass.needed) :
           LET i == FindDisplayed(tiles, pass.needed[k], pass.style_id) IN
           i # 0 /\ ~BelowOpaque(tiles[i].opacity)) => ~pass'.ret

C36_EveryFadingTileRefreshed ==
    [][IsPass =>
        \A i \in 1 .. Len(tiles), m \in 1 .. Len(tiles') :
            (/\ tiles'[m].index = tiles[i].index
             /\ tiles'[m].style_id = tiles[i].style_id
             /\ tiles'[m].displayed_at = tiles[i].displayed_at
             /\ ~OpEq(tiles[i].opacity, OpacityOne)) =>
                OpEq(tiles'[m].opacity,
                     FadeOpacity(now, tiles[i].displayed_at, fade_in_duration))]_vars

\* The opacity is a number from 0 to 1.
InUnitRange(op) == op[2] > 0 /\ op[1] >= 0 /\ op[1] <= op[2]

\* Every displayed tile has an opacity from 0 to 1.
OpacitiesInRange == \A i \in 1 .. Len(tiles) : InUnitRange(tiles[i].opacity)

\* C37, as claimed: from an empty container, after any calls of
\* update_displayed_tiles, every displayed tile has an opacity from 0 to 1 and
\* no two displayed tiles have the same index and style, also when a call
\* names an index twice and when the style changes between the calls.
C37_RangeAndUnique ==
    /\ OpacitiesInRange
    /\ \A i, j \in 1 .. Len(tiles) :
          (tiles[i].index = tiles[j].index /\ tiles[i].style_id = tiles[j].style_id)
              => i = j

\* C38, as claimed: when the handle returned by spawn_prefetch_for_url has
\* completed, the task it stands for having ended, every tile task that
\* prefetch_tiles spawned has ended.
C38_HandleCompletesAfterFetches ==
    prefetch.task = "done" => Ended = DOMAIN ttask

\* The columns and the rows of the returned tile indices.
CoverColumns == {idx.x : idx \in cover.out}
CoverRows == {idx.y : idx \in cover.out}

\* The least element of a non-empty set of integers.
Least(S) == CHOOSE a \in S : \A b \in S : a <= b

\* The set is a range of integers with no gap.
Contiguous(S) == \A a \in S, b \in S : \A c \in a .. b : c \in S

\* The offset of the edge of the box with the least row from the origin of
\* the schema, along the direction in which the rows are counted.
FirstRowOffset ==
    IF cover.y_direction = "TopToBottom"
    THEN CoverSchema(cover.y_direction).origin_y - cover.bbox.y_max
    ELSE cover.bbox.y_min - CoverSchema(cover.y_direction).origin_y

\* C39, as claimed: for a box whose edges are in order and for which tiles
\* are returned, the least column is the floor of the offset of the left edge
\* from the origin over the width of a tile, and the least row the floor of
\* the offset of the first edge over the height of a tile, also for negative
\* offsets; the columns and the rows are ranges with no gap, and the tiles
\* returned are all the pairs of them at level z.
C39_MinIsFloor ==
    (/\ cover.called
     /\ cover.out # {}
     /\ cover.bbox.x_min <= cover.bbox.x_max
     /\ cover.bbox.y_min <= cover.bbox.y_max) =>
        LET schema == CoverSchema(cover.y_direction)
            resolution == Unwrap(lod_resolution(schema, cover.z)) IN
        /\ Least(CoverColumns) =
              FloorDiv(cover.bbox.x_min - schema.origin_x, resolution * schema.tile_width)
        /\ Least(CoverRows) =
              FloorDiv(FirstRowOffset, resolution * schema.tile_height)
        /\ Contiguous(CoverColumns)
        /\ Contiguous(CoverRows)
        /\ cover.out = {[x |-> x, y |-> y, z |-> cover.z] :
                           x \in CoverColumns, y \in CoverRows}

====
